---- MODULE Spec2Model ----
(***************************************************************************)
(* Reference validation of the EventCatalog linter                         *)
(* (src/src/validators/reference-validator.ts).                            *)
(*                                                                         *)
(* A run of validateReferences is modelled loop iteration by loop          *)
(* iteration: buildResourceIndex adds one parsed file per step, then for   *)
(* every parsed file extractReferences is evaluated and every extracted    *)
(* reference is checked against the index.  A JavaScript exception ends    *)
(* the run in pc = "thrown".                                               *)
(*                                                                         *)
(* Strings are sequences of atoms (a character, or a word that none of the *)
(* modelled string operations splits).  Frontmatter values are JavaScript  *)
(* values, tagged with their type.                                         *)
(*                                                                         *)
(* The module also covers the rule configuration (getEffectiveRules and    *)
(* applyRuleSeverity, SpecConfig) and the exit decision of the command     *)
(* line (src/src/cli/index.ts, SpecCli).                                   *)
(***************************************************************************)
EXTENDS Integers, Sequences, FiniteSets, TLC

\* parsedFiles: the argument of validateReferences;  index: the ResourceIndex being
\* built, then read;  pc: "build" (the loop of buildResourceIndex), "extract" (the
\* head of the outer loop), "check" (the inner loop), "done" (returned), "thrown"
\* (an exception left the call);  i: the iterations of the loop under way that
\* have started (parsedFiles[i] is the file of the outer loop);  references: the
\* references of parsedFiles[i];  j: how many of them are checked;  found: the
\* local of that name for references[j];  errors: the list being returned;
\* otherCall: the same locals of a second call of validateReferences under way in the
\* same process, as a record (NoCall when there is none)
VARIABLES parsedFiles, index, pc, i, references, j, found, errors, otherCall

\* the configuration module (src/unnamed/part_002).  filePath, config: the
\* arguments of getEffectiveRules;  parsedRules: what it returned;  rules: the
\* second argument of applyRuleSeverity, whose first argument is errors;
\* processedErrors: what it returned.  None stands for no argument and for
\* nothing returned yet, Some(v) for the value v
VARIABLES filePath, config, parsedRules, rules, processedErrors

\* the command-line action (src/src/cli/index.ts).  cliPc: the statement the
\* action is at ("scan", "parse", "validate", "report", "decide", "exited",
\* "none" when no command runs);  options: the parsed command-line options;
\* fileCount: files.length of the scan;  summary: what reportErrors returned;
\* exitCode: the code the process ended with;  ran: the steps that ran, in
\* order
VARIABLES cliPc, options, fileCount, summary, exitCode, ran

configVars == <<filePath, config, parsedRules, rules, processedErrors>>

cliVars == <<cliPc, options, fileCount, summary, exitCode, ran>>

vars == <<parsedFiles, index, pc, i, references, j, found, errors, otherCall, configVars,
          cliVars>>

\* an argument not given or a value not returned yet, and a value that is there
None == <<>>

Some(v) == <<v>>

\* no function of the configuration module is called
ConfigIdle ==
  /\ filePath = <<>>
  /\ config = None
  /\ parsedRules = None
  /\ rules = None
  /\ processedErrors = None

\* no command runs
CliIdle ==
  /\ cliPc = "none"
  /\ options = None
  /\ fileCount = 0
  /\ summary = None
  /\ exitCode = None
  /\ ran = <<>>

(***************************************************************************)
(* JavaScript values                                                       *)
(***************************************************************************)
Undef == [t |-> "undefined"]
Null == [t |-> "null"]
Str(s) == [t |-> "string", s |-> s]
Num(n) == [t |-> "number", n |-> n]
List(xs) == [t |-> "array", xs |-> xs]
Obj(f) == [t |-> "object", f |-> f]

\* if (v): undefined, null, '' and 0 are falsy
Truthy(v) ==
  CASE v.t = "undefined" -> FALSE
    [] v.t = "null" -> FALSE
    [] v.t = "string" -> v.s # <<>>
    [] v.t = "number" -> v.n # 0
    [] OTHER -> TRUE

IsString(v) == v.t = "string"

IsArray(v) == v.t = "array"

\* v.k raises a TypeError when v is null or undefined
GetThrows(v) == v.t \in {"undefined", "null"}

\* v.k for a value that is not null or undefined; a primitive or an array has none
\* of the properties read here
Get(v, k) == IF v.t = "object" /\ k \in DOMAIN v.f THEN v.f[k] ELSE Undef

Digit(n) == <<"0", "1", "2", "3", "4", "5", "6", "7", "8", "9">>[n + 1]

RECURSIVE Digits(_)
Digits(n) == IF n < 10 THEN <<Digit(n)>> ELSE Append(Digits(n \div 10), Digit(n % 10))

\* String(v), as a template literal or a property key coerces it
JsString(v) ==
  CASE v.t = "undefined" -> <<"undefined">>
    [] v.t = "null" -> <<"null">>
    [] v.t = "string" -> v.s
    [] v.t = "number" -> Digits(v.n)
    [] OTHER -> <<"[object Object]">>

(***************************************************************************)
(* String operations                                                       *)
(***************************************************************************)
StartsWith(s, p) == Len(p) <= Len(s) /\ SubSeq(s, 1, Len(p)) = p

Includes(s, p) == \E k \in 0..(Len(s) - Len(p)) : SubSeq(s, k + 1, k + Len(p)) = p

\* s.replace(/p/g, ''): every occurrence of p removed, left to right
RECURSIVE RemoveAll(_, _)
RemoveAll(s, p) ==
  IF s = <<>> THEN <<>>
  ELSE IF StartsWith(s, p) THEN RemoveAll(SubSeq(s, Len(p) + 1, Len(s)), p)
  ELSE <<Head(s)>> \o RemoveAll(Tail(s), p)

\* the position of the first c in s, or 0
RECURSIVE IndexOf(_, _, _)
IndexOf(s, c, from) ==
  IF from > Len(s) THEN 0
  ELSE IF s[from] = c THEN from
  ELSE IndexOf(s, c, from + 1)

\* s.split(c)
RECURSIVE Split(_, _)
Split(s, c) ==
  LET k == IndexOf(s, c, 1)
  IN IF k = 0 THEN <<s>>
     ELSE <<SubSeq(s, 1, k - 1)>> \o Split(SubSeq(s, k + 1, Len(s)), c)

(***************************************************************************)
(* The semver library, as the validator uses it: semver.valid(v) and       *)
(* semver.satisfies(v, range) in the default (strict, no prerelease        *)
(* inclusion) mode.  Modelled grammar: versions [v]M.m.p[-prerelease];     *)
(* ranges made of space-separated comparators, each an optional operator   *)
(* (>=, <=, >, <, =, ^, ~) followed by a partial version M, M.m or M.m.p   *)
(* whose parts may be x, X or *.  Build metadata, surrounding whitespace,  *)
(* '||', hyphen ranges, an operator without a version and prerelease tags  *)
(* inside a range are outside the modelled grammar; no string of the       *)
(* catalogs below uses them.                                               *)
(***************************************************************************)
DigitChars == {"0", "1", "2", "3", "4", "5", "6", "7", "8", "9"}

LetterChars ==
  {"a", "b", "c", "d", "e", "f", "g", "h", "i", "j", "k", "l", "m", "n", "o", "p",
   "q", "r", "s", "t", "u", "v", "w", "x", "y", "z"}

DigitVal(c) == CHOOSE n \in 0..9 : Digit(n) = c

\* 0|[1-9]\d*
IsNumericId(s) ==
  /\ s # <<>>
  /\ \A k \in 1..Len(s) : s[k] \in DigitChars
  /\ (Len(s) = 1 \/ s[1] # "0")

RECURSIVE NumVal(_)
NumVal(s) == IF s = <<>> THEN 0 ELSE 10 * NumVal(SubSeq(s, 1, Len(s) - 1)) + DigitVal(s[Len(s)])

\* dot-separated identifiers of [0-9A-Za-z-]+, the numeric ones without a leading zero
IsPrerelease(s) ==
  \A part \in {Split(s, ".")[k] : k \in 1..Len(Split(s, "."))} :
    /\ part # <<>>
    /\ \A k \in 1..Len(part) : part[k] \in DigitChars \cup LetterChars \cup {"-"}
    /\ ((\A k \in 1..Len(part) : part[k] \in DigitChars) => IsNumericId(part))

\* new SemVer(s): [ok, v (the <<major, minor, patch>> tuple), pre (has a prerelease tag)]
ParseSemVer(s) ==
  LET body == IF s # <<>> /\ s[1] = "v" THEN Tail(s) ELSE s
      dash == IndexOf(body, "-", 1)
      main == IF dash = 0 THEN body ELSE SubSeq(body, 1, dash - 1)
      pre == IF dash = 0 THEN <<>> ELSE SubSeq(body, dash + 1, Len(body))
      parts == Split(main, ".")
  IN IF /\ Len(parts) = 3
        /\ \A k \in 1..3 : IsNumericId(parts[k])
        /\ (dash = 0 \/ IsPrerelease(pre))
     THEN [ok |-> TRUE, v |-> <<NumVal(parts[1]), NumVal(parts[2]), NumVal(parts[3])>>,
           pre |-> dash # 0]
     ELSE [ok |-> FALSE, v |-> <<0, 0, 0>>, pre |-> FALSE]

\* semver.valid(v) is truthy: v is a string that parses as a version
semverValid(v) == IsString(v) /\ ParseSemVer(v.s).ok

\* a < b on <<major, minor, patch>>
TupleLt(a, b) ==
  \/ a[1] < b[1]
  \/ a[1] = b[1] /\ a[2] < b[2]
  \/ a[1] = b[1] /\ a[2] = b[2] /\ a[3] < b[3]

ComparatorOps == << <<">", "=">>, <<"<", "=">>, <<">">>, <<"<">>, <<"=">>, <<"^">>, <<"~">> >>

\* the operator a comparator starts with, <<>> when it has none
OpOf(c) ==
  IF \E k \in 1..Len(ComparatorOps) : StartsWith(c, ComparatorOps[k])
  THEN ComparatorOps[CHOOSE k \in 1..Len(ComparatorOps) :
         /\ StartsWith(c, ComparatorOps[k])
         /\ \A l \in 1..(k - 1) : ~StartsWith(c, ComparatorOps[l])]
  ELSE <<>>

IsXId(s) == s \in {<<"x">>, <<"X">>, <<"*">>}

\* one part of a partial version: its number, or -1 for x, X, * or a part left out
PartVal(parts, k) ==
  IF k > Len(parts) \/ IsXId(parts[k]) THEN -1 ELSE NumVal(parts[k])

Interval(lo, hi) == [ok |-> TRUE, lo |-> lo, bounded |-> TRUE, hi |-> hi]

AtLeast(lo) == [ok |-> TRUE, lo |-> lo, bounded |-> FALSE, hi |-> <<0, 0, 0>>]

AnyVersion == AtLeast(<<0, 0, 0>>)

NoVersion == Interval(<<0, 0, 0>>, <<0, 0, 0>>)

InvalidComparator == [ok |-> FALSE, lo |-> <<0, 0, 0>>, bounded |-> FALSE, hi |-> <<0, 0, 0>>]

\* the versions [lo, hi) one comparator admits (replaceCarets, replaceTildes,
\* replaceXRanges and replaceStars of the library)
Desugar(op, M, m, p) ==
  LET xM == M < 0
      xm == xM \/ m < 0
      xp == xm \/ p < 0
  IN CASE op \in {<<>>, <<"=">>} ->
            IF xM THEN AnyVersion
            ELSE IF xm THEN Interval(<<M, 0, 0>>, <<M + 1, 0, 0>>)
            ELSE IF xp THEN Interval(<<M, m, 0>>, <<M, m + 1, 0>>)
            ELSE Interval(<<M, m, p>>, <<M, m, p + 1>>)
       [] op = <<">">> ->
            IF xM THEN NoVersion
            ELSE IF xm THEN AtLeast(<<M + 1, 0, 0>>)
            ELSE IF xp THEN AtLeast(<<M, m + 1, 0>>)
            ELSE AtLeast(<<M, m, p + 1>>)
       [] op = <<">", "=">> ->
            IF xM THEN AnyVersion
            ELSE IF xm THEN AtLeast(<<M, 0, 0>>)
            ELSE IF xp THEN AtLeast(<<M, m, 0>>)
            ELSE AtLeast(<<M, m, p>>)
       [] op = <<"<">> ->
            IF xM THEN NoVersion
            ELSE IF xm THEN Interval(<<0, 0, 0>>, <<M, 0, 0>>)
            ELSE IF xp THEN Interval(<<0, 0, 0>>, <<M, m, 0>>)
            ELSE Interval(<<0, 0, 0>>, <<M, m, p>>)
       [] op = <<"<", "=">> ->
            IF xM THEN AnyVersion
            ELSE IF xm THEN Interval(<<0, 0, 0>>, <<M + 1, 0, 0>>)
            ELSE IF xp THEN Interval(<<0, 0, 0>>, <<M, m + 1, 0>>)
            ELSE Interval(<<0, 0, 0>>, <<M, m, p + 1>>)
       [] op = <<"^">> ->
            IF xM THEN AnyVersion
            ELSE IF xm THEN Interval(<<M, 0, 0>>, <<M + 1, 0, 0>>)
            ELSE IF xp THEN
              IF M = 0 THEN Interval(<<0, m, 0>>, <<0, m + 1, 0>>)
              ELSE Interval(<<M, m, 0>>, <<M + 1, 0, 0>>)
            ELSE IF M > 0 THEN Interval(<<M, m, p>>, <<M + 1, 0, 0>>)
            ELSE IF m > 0 THEN Interval(<<0, m, p>>, <<0, m + 1, 0>>)
            ELSE Interval(<<0, 0, p>>, <<0, 0, p + 1>>)
       [] OTHER ->
            IF xM THEN AnyVersion
            ELSE IF xm THEN Interval(<<M, 0, 0>>, <<M + 1, 0, 0>>)
            ELSE IF xp THEN Interval(<<M, m, 0>>, <<M, m + 1, 0>>)
            ELSE Interval(<<M, m, p>>, <<M, m + 1, 0>>)

\* new Comparator(c) after desugaring
ParseComparator(c) ==
  LET op == OpOf(c)
      partial == SubSeq(c, Len(op) + 1, Len(c))
      parts == Split(partial, ".")
  IN IF partial = <<>> THEN (IF op = <<>> THEN AnyVersion ELSE InvalidComparator)
     ELSE IF /\ Len(parts) <= 3
             /\ \A k \in 1..Len(parts) : IsNumericId(parts[k]) \/ IsXId(parts[k])
     THEN Desugar(op, PartVal(parts, 1), PartVal(parts, 2), PartVal(parts, 3))
     ELSE InvalidComparator

\* new Range(range): the comparators of the range, in order
ParseRange(range) ==
  LET words == SelectSeq(Split(range, " "), LAMBDA w : w # <<>>)
  IN [k \in 1..Len(words) |-> ParseComparator(words[k])]

\* semver.satisfies(version, range): false, never an exception, for a range that is
\* not a string or does not parse; a prerelease version satisfies no range that
\* carries no prerelease tag
semverSatisfies(version, range) ==
  /\ IsString(range)
  /\ semverValid(version)
  /\ LET comparators == ParseRange(range.s)
         sv == ParseSemVer(version.s)
     IN /\ \A k \in 1..Len(comparators) : comparators[k].ok
        /\ ~sv.pre
        /\ \A k \in 1..Len(comparators) :
             /\ ~TupleLt(sv.v, comparators[k].lo)
             /\ (comparators[k].bounded => TupleLt(sv.v, comparators[k].hi))

(***************************************************************************)
(* Parsed files and the resource index                                     *)
(***************************************************************************)
ResourceTypes ==
  {"domain", "service", "event", "command", "query", "channel", "flow", "entity",
   "user", "team"}

LATEST == <<"l", "a", "t", "e", "s", "t">>

\* createParsedFile of the tests: the scanner's file record and the frontmatter
ParsedFile(resourceType, resourceId, frontmatter) ==
  [file |-> [resourceType |-> resourceType, resourceId |-> resourceId,
             relativePath |-> <<resourceType, "s", "/">> \o resourceId \o <<"/", "index.mdx">>],
   frontmatter |-> frontmatter]

\* frontmatter.k, undefined for a key the frontmatter does not carry
FM(parsedFile, k) ==
  IF k \in DOMAIN parsedFile.frontmatter THEN parsedFile.frontmatter[k] ELSE Undef

\* the properties a plain object {} inherits from Object.prototype: index[type][id]
\* yields them for an id that is no own key
ObjectPrototypeKeys == {<<"constructor">>, <<"__proto__">>}

\* Array.from(v) of an inherited property: Object (a function of length 1) gives
\* [undefined], Object.prototype gives []
InheritedArray(key) == IF key = <<"constructor">> THEN {Undef} ELSE {}

\* variant: every resource is filed under its storage-derived id
canonicalIdStorage(parsedFile) == parsedFile.file.resourceId

\* variant: the frontmatter id is used for every resource type
canonicalIdAnyType(parsedFile) ==
  LET id == FM(parsedFile, "id")
  IN IF Truthy(id) /\ IsString(id) THEN id.s ELSE parsedFile.file.resourceId

\* the key buildResourceIndex files a resource under
canonicalId(parsedFile) ==
  LET resourceType == parsedFile.file.resourceType
      id == FM(parsedFile, "id")
  IN IF resourceType \in {"user", "team", "domain"} /\ Truthy(id) /\ IsString(id)
     THEN id.s
     ELSE parsedFile.file.resourceId

\* the version a resource contributes to its version set
versionToken(parsedFile) ==
  LET version == FM(parsedFile, "version")
  IN IF Truthy(version) /\ IsString(version) THEN version.s ELSE LATEST

\* one iteration of buildResourceIndex raises a TypeError: index[type][id] is an
\* inherited property, so no Set is created and .add is not a function
IndexAddThrows(idx, parsedFile) ==
  LET resourceType == parsedFile.file.resourceType
      resourceId == canonicalId(parsedFile)
      own == IF resourceType \in DOMAIN idx THEN DOMAIN idx[resourceType] ELSE {}
  IN resourceId \notin own /\ resourceId \in ObjectPrototypeKeys

\* variant: the version of a resource replaces the versions filed before it
IndexAddOverwrite(idx, parsedFile) ==
  LET resourceType == parsedFile.file.resourceType
      resourceId == canonicalId(parsedFile)
      byId == IF resourceType \in DOMAIN idx THEN idx[resourceType] ELSE <<>>
      newById == [k \in DOMAIN byId \cup {resourceId} |->
                    IF k = resourceId THEN {versionToken(parsedFile)} ELSE byId[k]]
  IN [t \in DOMAIN idx \cup {resourceType} |->
        IF t = resourceType THEN newById ELSE idx[t]]

\* one iteration of buildResourceIndex
IndexAdd(idx, parsedFile) ==
  LET resourceType == parsedFile.file.resourceType
      resourceId == canonicalId(parsedFile)
      byId == IF resourceType \in DOMAIN idx THEN idx[resourceType] ELSE <<>>
      versions == IF resourceId \in DOMAIN byId THEN byId[resourceId] ELSE {}
      newById == [k \in DOMAIN byId \cup {resourceId} |->
                    IF k = resourceId THEN versions \cup {versionToken(parsedFile)}
                    ELSE byId[k]]
  IN [t \in DOMAIN idx \cup {resourceType} |->
        IF t = resourceType THEN newById ELSE idx[t]]

(***************************************************************************)
(* checkResourceExists                                                     *)
(***************************************************************************)
Outcome(b) == IF b THEN "true" ELSE "false"

\* the x-pattern fallback: the request with every '.x' removed is a prefix of an
\* available version
XPatternMatch(refVersion, semverVersions) ==
  /\ Includes(refVersion.s, <<".", "x">>)
  /\ \E availableVersion \in semverVersions :
       StartsWith(availableVersion.s, RemoveAll(refVersion.s, <<".", "x">>))

\* variant: the loop over semver.satisfies is missing
SemverMatchPrefixOnly(refVersion, availableVersions) ==
  LET semverVersions == {v \in availableVersions : v # Str(LATEST) /\ semverValid(v)}
  IN IF ~IsString(refVersion) THEN refVersion \in availableVersions
     ELSE XPatternMatch(refVersion, semverVersions)

\* variant: a range has to be satisfied by every semantic version available
SemverMatchEvery(refVersion, availableVersions) ==
  LET semverVersions == {v \in availableVersions : v # Str(LATEST) /\ semverValid(v)}
  IN IF /\ semverVersions # {}
        /\ \A availableVersion \in semverVersions : semverSatisfies(availableVersion, refVersion)
     THEN TRUE
     ELSE IF ~IsString(refVersion) THEN refVersion \in availableVersions
     ELSE XPatternMatch(refVersion, semverVersions)

\* the try block; a request that is not a string makes refVersion.includes raise,
\* and the catch answers by exact membership
SemverMatch(refVersion, availableVersions) ==
  LET semverVersions == {v \in availableVersions : v # Str(LATEST) /\ semverValid(v)}
  IN IF \E availableVersion \in semverVersions : semverSatisfies(availableVersion, refVersion)
     THEN TRUE
     ELSE IF ~IsString(refVersion) THEN refVersion \in availableVersions
     ELSE XPatternMatch(refVersion, semverVersions)

\* variant: only the sentinel entry answers a request for 'latest'
LatestMatchSentinelOnly(availableVersions) == Str(LATEST) \in availableVersions

\* a request for 'latest'
LatestMatch(availableVersions) ==
  Str(LATEST) \in availableVersions \/ availableVersions # {}

\* variant: the exact match is tried on semantic versions only
ExactMatchSemverOnly(refVersion, availableVersions) ==
  refVersion \in availableVersions /\ semverValid(refVersion)

\* availableVersions.includes(refVersion)
ExactMatch(refVersion, availableVersions) == refVersion \in availableVersions

\* variant: a reference without version is taken as a request for the sentinel
versionMatchesSentinelForNone(refVersion, availableVersions) ==
  IF ~Truthy(refVersion) THEN Str(LATEST) \in availableVersions
  ELSE IF refVersion = Str(LATEST) THEN LatestMatch(availableVersions)
  ELSE IF ExactMatch(refVersion, availableVersions) THEN TRUE
  ELSE SemverMatch(refVersion, availableVersions)

\* variant: the exact match is left out
versionMatchesNoExact(refVersion, availableVersions) ==
  IF ~Truthy(refVersion) THEN TRUE
  ELSE IF refVersion = Str(LATEST) THEN LatestMatch(availableVersions)
  ELSE SemverMatch(refVersion, availableVersions)

\* checkResourceExists once the version set is found: no version, 'latest', exact
\* match, then the semver patterns
versionMatches(refVersion, availableVersions) ==
  IF ~Truthy(refVersion) THEN TRUE
  ELSE IF refVersion = Str(LATEST) THEN LatestMatch(availableVersions)
  ELSE IF ExactMatch(refVersion, availableVersions) THEN TRUE
  ELSE SemverMatch(refVersion, availableVersions)

\* "true", "false", or "throw" for the TypeError of reading ref.id off null or
\* undefined (index[resourceType]?.[ref.id] reads it only when the type is indexed)
checkResourceExists(ref, resourceType, idx) ==
  IF resourceType \notin DOMAIN idx THEN "false"
  ELSE IF GetThrows(ref) THEN "throw"
  ELSE
    LET key == JsString(Get(ref, "id"))
        own == key \in DOMAIN idx[resourceType]
        availableVersions ==
          IF own THEN {Str(v) : v \in idx[resourceType][key]} ELSE InheritedArray(key)
    IN IF ~own /\ key \notin ObjectPrototypeKeys THEN "false"
       ELSE IF own /\ idx[resourceType][key] = {} THEN "false"
       ELSE Outcome(versionMatches(Get(ref, "version"), availableVersions))

(***************************************************************************)
(* extractReferences                                                       *)
(***************************************************************************)
MessageTypes == <<"event", "command", "query">>

ReferenceInfo(ref, possibleTypes, field) ==
  [ref |-> ref, possibleTypes |-> possibleTypes, field |-> field]

\* frontmatter[key].forEach(ref => push {ref, possibleTypes, field}) when the field
\* is present and an array
ListRefs(parsedFile, key, possibleTypes) ==
  LET v == FM(parsedFile, key)
  IN IF Truthy(v) /\ IsArray(v)
     THEN [k \in 1..Len(v.xs) |-> ReferenceInfo(v.xs[k], possibleTypes, <<key>>)]
     ELSE <<>>

\* owners and members: every item is wrapped into {id: item}
IdRefs(parsedFile, key, possibleTypes) ==
  LET v == FM(parsedFile, key)
  IN IF Truthy(v) /\ IsArray(v)
     THEN [k \in 1..Len(v.xs) |->
             ReferenceInfo(Obj([id |-> v.xs[k]]), possibleTypes, <<key>>)]
     ELSE <<>>

\* variant: the label counts the items from one
IndexedFieldOneBased(key, n, property) ==
  <<key, "[">> \o Digits(n + 1) \o <<"]", ".", property>>

\* `${key}[${n}].${property}`
IndexedField(key, n, property) == <<key, "[">> \o Digits(n) \o <<"]", ".", property>>

\* the references of steps[k..]; the label carries the zero-based position
RECURSIVE StepRefs(_, _)
StepRefs(steps, k) ==
  IF k > Len(steps) THEN <<>>
  ELSE
    LET step == steps[k]
        message == Get(step, "message")
        service == Get(step, "service")
    IN (IF Truthy(message)
        THEN <<ReferenceInfo(message, MessageTypes, IndexedField("steps", k - 1, "message"))>>
        ELSE <<>>)
       \o (IF Truthy(service)
           THEN <<ReferenceInfo(service, <<"service">>, IndexedField("steps", k - 1, "service"))>>
           ELSE <<>>)
       \o StepRefs(steps, k + 1)

RECURSIVE PropertyRefs(_, _)
PropertyRefs(properties, k) ==
  IF k > Len(properties) THEN <<>>
  ELSE
    LET references_ == Get(properties[k], "references")
    IN (IF Truthy(references_)
        THEN <<ReferenceInfo(Obj([id |-> references_]), <<"entity">>,
                             IndexedField("properties", k - 1, "references"))>>
        ELSE <<>>)
       \o PropertyRefs(properties, k + 1)

\* the list under key when the resource has the given type and the field is a
\* present array, else the empty list
ItemsOf(parsedFile, resourceType, key) ==
  LET v == FM(parsedFile, key)
  IN IF parsedFile.file.resourceType = resourceType /\ Truthy(v) /\ IsArray(v)
     THEN v.xs ELSE <<>>

\* extractReferences raises a TypeError: step.message or prop.references is read
\* off an item that is null or undefined
extractReferencesThrows(parsedFile) ==
  \/ \E k \in 1..Len(ItemsOf(parsedFile, "flow", "steps")) :
       GetThrows(ItemsOf(parsedFile, "flow", "steps")[k])
  \/ \E k \in 1..Len(ItemsOf(parsedFile, "entity", "properties")) :
       GetThrows(ItemsOf(parsedFile, "entity", "properties")[k])

\* variant: the owners come first
extractReferencesOwnersFirst(parsedFile) ==
  LET resourceType == parsedFile.file.resourceType
  IN IdRefs(parsedFile, "owners", <<"user", "team">>)
     \o (IF resourceType = "domain"
         THEN ListRefs(parsedFile, "services", <<"service">>)
              \o ListRefs(parsedFile, "domains", <<"domain">>)
              \o ListRefs(parsedFile, "entities", <<"entity">>)
         ELSE <<>>)
     \o (IF resourceType = "service"
         THEN ListRefs(parsedFile, "sends", MessageTypes)
              \o ListRefs(parsedFile, "receives", MessageTypes)
              \o ListRefs(parsedFile, "entities", <<"entity">>)
         ELSE <<>>)
     \o StepRefs(ItemsOf(parsedFile, "flow", "steps"), 1)
     \o PropertyRefs(ItemsOf(parsedFile, "entity", "properties"), 1)
     \o (IF resourceType = "team" THEN IdRefs(parsedFile, "members", <<"user">>) ELSE <<>>)

extractReferences(parsedFile) ==
  LET resourceType == parsedFile.file.resourceType
  IN (IF resourceType = "domain"
      THEN ListRefs(parsedFile, "services", <<"service">>)
           \o ListRefs(parsedFile, "domains", <<"domain">>)
           \o ListRefs(parsedFile, "entities", <<"entity">>)
      ELSE <<>>)
     \o (IF resourceType = "service"
         THEN ListRefs(parsedFile, "sends", MessageTypes)
              \o ListRefs(parsedFile, "receives", MessageTypes)
              \o ListRefs(parsedFile, "entities", <<"entity">>)
         ELSE <<>>)
     \o StepRefs(ItemsOf(parsedFile, "flow", "steps"), 1)
     \o PropertyRefs(ItemsOf(parsedFile, "entity", "properties"), 1)
     \o IdRefs(parsedFile, "owners", <<"user", "team">>)
     \o (IF resourceType = "team" THEN IdRefs(parsedFile, "members", <<"user">>) ELSE <<>>)

(***************************************************************************)
(* validateReferences: one reference                                       *)
(***************************************************************************)
\* variant: only the first possible type is looked up
SomeTypeFirstOnly(ref, possibleTypes, k, idx) ==
  IF k > 1 THEN "false" ELSE checkResourceExists(ref, possibleTypes[k], idx)

\* variant: every indexed type is looked up, whatever the possible types
SomeTypeAnyIndexed(ref, possibleTypes, k, idx) ==
  IF \E t \in DOMAIN idx : checkResourceExists(ref, t, idx) = "throw" THEN "throw"
  ELSE Outcome(\E t \in DOMAIN idx : checkResourceExists(ref, t, idx) = "true")

\* possibleTypes.some(type => checkResourceExists(ref, type, index)), from position k:
\* "true" at the first type that resolves, "throw" when a call raises before that
RECURSIVE SomeType(_, _, _, _)
SomeType(ref, possibleTypes, k, idx) ==
  IF k > Len(possibleTypes) THEN "false"
  ELSE
    LET r == checkResourceExists(ref, possibleTypes[k], idx)
    IN IF r = "false" THEN SomeType(ref, possibleTypes, k + 1, idx) ELSE r

\* variant: only the first word is kept
JoinFirst(words, sep) == IF Len(words) = 0 THEN <<>> ELSE <<words[1]>>

\* words.join(sep)
RECURSIVE Join(_, _)
Join(words, sep) ==
  IF Len(words) = 0 THEN <<>>
  ELSE IF Len(words) = 1 THEN <<words[1]>>
  ELSE <<words[1], sep>> \o Join(Tail(words), sep)

\* variant: the owners field has no rule of its own
ruleOfNoOwners(info) ==
  IF Truthy(Get(info.ref, "version")) THEN "refs/valid-version-range"
  ELSE "refs/resource-exists"

ruleOf(info) ==
  IF info.field = <<"owners">> THEN "refs/owner-exists"
  ELSE IF Truthy(Get(info.ref, "version")) THEN "refs/valid-version-range"
  ELSE "refs/resource-exists"

messageOf(info) ==
  LET version == Get(info.ref, "version")
      versionStr ==
        IF Truthy(version)
        THEN <<" ", "(", "version", ":", " ">> \o JsString(version) \o <<")">>
        ELSE <<>>
      typeStr ==
        IF Len(info.possibleTypes) = 1 THEN <<info.possibleTypes[1]>>
        ELSE Join(info.possibleTypes, "/")
  IN <<"Referenced", " ">> \o typeStr \o <<" ", "\"">> \o JsString(Get(info.ref, "id"))
       \o <<"\"">> \o versionStr \o <<" ", "does", " ", "not", " ", "exist">>

\* variant: the referring resource is named by the key it is indexed under
errorOfCanonical(parsedFile, info) ==
  [type |-> "reference",
   resource |-> <<parsedFile.file.resourceType, "/">> \o canonicalId(parsedFile),
   field |-> info.field,
   message |-> messageOf(info),
   file |-> parsedFile.file.relativePath,
   rule |-> ruleOf(info)]

\* the ValidationError pushed for an unresolved reference
errorOf(parsedFile, info) ==
  [type |-> "reference",
   resource |-> <<parsedFile.file.resourceType, "/">> \o parsedFile.file.resourceId,
   field |-> info.field,
   message |-> messageOf(info),
   file |-> parsedFile.file.relativePath,
   rule |-> ruleOf(info)]

\* variant: a reference of a resource to itself is reported
checkReferenceNoSelf(errs, parsedFile, info, idx) ==
  IF /\ SomeType(info.ref, info.possibleTypes, 1, idx) = "true"
     /\ ~(/\ JsString(Get(info.ref, "id")) = canonicalId(parsedFile)
          /\ \E k \in 1..Len(info.possibleTypes) :
               info.possibleTypes[k] = parsedFile.file.resourceType)
  THEN errs
  ELSE Append(errs, errorOf(parsedFile, info))

\* variant: an error equal to one already in the list is not added
checkReferenceDedup(errs, parsedFile, info, idx) ==
  IF \/ SomeType(info.ref, info.possibleTypes, 1, idx) = "true"
     \/ \E k \in 1..Len(errs) : errs[k] = errorOf(parsedFile, info)
  THEN errs
  ELSE Append(errs, errorOf(parsedFile, info))

\* the body of the inner loop raises: a check raised, or no type resolved and
\* ref.version is read off null/undefined
checkReferenceThrows(info, idx) ==
  LET some == SomeType(info.ref, info.possibleTypes, 1, idx)
  IN some = "throw" \/ (some = "false" /\ GetThrows(info.ref))

\* the errors after the body of the inner loop
checkReference(errs, parsedFile, info, idx) ==
  IF SomeType(info.ref, info.possibleTypes, 1, idx) = "true" THEN errs
  ELSE Append(errs, errorOf(parsedFile, info))

(***************************************************************************)
(* The run of validateReferences(parsedFiles)                              *)
(***************************************************************************)
\* one iteration of the loop of buildResourceIndex, for parsedFiles[i + 1]
BuildStep ==
  /\ pc = "build"
  /\ IF IndexAddThrows(index, parsedFiles[i + 1])
     THEN /\ pc' = "thrown"
          /\ UNCHANGED <<index, i>>
     ELSE /\ index' = IndexAdd(index, parsedFiles[i + 1])
          /\ pc' = IF i + 1 = Len(parsedFiles) THEN "extract" ELSE "build"
          /\ i' = IF i + 1 = Len(parsedFiles) THEN 0 ELSE i + 1
  /\ UNCHANGED <<parsedFiles, references, j, found, errors, otherCall, configVars, cliVars>>

\* the head of the outer loop: extractReferences(parsedFiles[i + 1])
ExtractStep ==
  /\ pc = "extract"
  /\ IF extractReferencesThrows(parsedFiles[i + 1])
     THEN /\ pc' = "thrown"
          /\ UNCHANGED <<i, references, j>>
     ELSE /\ references' = extractReferences(parsedFiles[i + 1])
          /\ i' = i + 1
          /\ j' = 0
          /\ pc' = IF references' # <<>> THEN "check"
                   ELSE IF i' = Len(parsedFiles) THEN "done" ELSE "extract"
  /\ UNCHANGED <<parsedFiles, index, found, errors, otherCall, configVars, cliVars>>

\* the body of the inner loop for references[j + 1], a reference of parsedFiles[i]
CheckStep ==
  /\ pc = "check"
  /\ IF checkReferenceThrows(references[j + 1], index)
     THEN /\ pc' = "thrown"
          /\ UNCHANGED <<j, found, errors>>
     ELSE /\ found' = (SomeType(references[j + 1].ref, references[j + 1].possibleTypes,
                                1, index) = "true")
          /\ errors' = checkReference(errors, parsedFiles[i], references[j + 1], index)
          /\ j' = j + 1
          /\ pc' = IF j' < Len(references) THEN "check"
                   ELSE IF i = Len(parsedFiles) THEN "done" ELSE "extract"
  /\ UNCHANGED <<parsedFiles, index, i, references, otherCall, configVars, cliVars>>

Next == BuildStep \/ ExtractStep \/ CheckStep

\* the state at the call of validateReferences(files)
Start(files) ==
  /\ parsedFiles = files
  /\ index = <<>>
  /\ pc = "build"
  /\ i = 0
  /\ references = <<>>
  /\ j = 0
  /\ found = FALSE
  /\ errors = <<>>

(***************************************************************************)
(* Two calls of validateReferences in one process                          *)
(***************************************************************************)
NoCall == [pc |-> "none"]

\* the locals of a call at its entry
CallStart(files) ==
  [parsedFiles |-> files, index |-> <<>>, pc |-> "build", i |-> 0,
   references |-> <<>>, j |-> 0, found |-> FALSE, errors |-> <<>>]

\* one loop iteration of a call, on its own locals: BuildStep, ExtractStep or
\* CheckStep
CallStep(call) ==
  LET files == call.parsedFiles
      last == call.i + 1 = Len(files)
  IN CASE call.pc = "build" ->
            IF IndexAddThrows(call.index, files[call.i + 1])
            THEN [call EXCEPT !.pc = "thrown"]
            ELSE [call EXCEPT !.index = IndexAdd(call.index, files[call.i + 1]),
                              !.pc = IF last THEN "extract" ELSE "build",
                              !.i = IF last THEN 0 ELSE call.i + 1]
       [] call.pc = "extract" ->
            IF extractReferencesThrows(files[call.i + 1])
            THEN [call EXCEPT !.pc = "thrown"]
            ELSE LET refs == extractReferences(files[call.i + 1])
                 IN [call EXCEPT !.references = refs,
                                 !.i = call.i + 1,
                                 !.j = 0,
                                 !.pc = IF refs # <<>> THEN "check"
                                        ELSE IF last THEN "done" ELSE "extract"]
       [] call.pc = "check" ->
            LET info == call.references[call.j + 1]
            IN IF checkReferenceThrows(info, call.index)
               THEN [call EXCEPT !.pc = "thrown"]
               ELSE [call EXCEPT
                       !.found = (SomeType(info.ref, info.possibleTypes, 1, call.index) = "true"),
                       !.errors = checkReference(call.errors, files[call.i], info, call.index),
                       !.j = call.j + 1,
                       !.pc = IF call.j + 1 < Len(call.references) THEN "check"
                              ELSE IF call.i = Len(files) THEN "done" ELSE "extract"]
       [] OTHER -> call

\* what a call returns when it runs alone: its locals when it has returned or raised
RECURSIVE CallResult(_)
CallResult(call) ==
  IF call.pc \in {"done", "thrown"} THEN call ELSE CallResult(CallStep(call))

\* variant: the index of the call under way is taken over
NewIndexShared(existing) == existing

\* const index: ResourceIndex = {}: every call builds an index of its own
NewIndex(existing) == <<>>

\* variant: the error list of the call under way is taken over
NewErrorsShared(existing) == existing

\* const errors: ValidationError[] = []: every call returns a list of its own
NewErrors(existing) == <<>>

\* validateReferences(parsedFiles) is entered while the other call is under way or
\* has ended
Call ==
  /\ pc = "idle"
  /\ pc' = "build"
  /\ index' = NewIndex(otherCall.index)
  /\ errors' = NewErrors(otherCall.errors)
  /\ UNCHANGED <<parsedFiles, i, references, j, found, otherCall, configVars, cliVars>>

\* one loop iteration of the other call
OtherStep ==
  /\ otherCall.pc \in {"build", "extract", "check"}
  /\ otherCall' = CallStep(otherCall)
  /\ UNCHANGED <<parsedFiles, index, pc, i, references, j, found, errors, configVars, cliVars>>

NextPair == Call \/ OtherStep \/ BuildStep \/ ExtractStep \/ CheckStep

(***************************************************************************)
(* The configuration module: rules, overrides and severities               *)
(***************************************************************************)
\* variant: a key both have keeps a's value
SpreadKeep(a, b) == [k \in DOMAIN a \cup DOMAIN b |-> IF k \in DOMAIN a THEN a[k] ELSE b[k]]

\* { ...a, ...b }: the own keys of both, b's value where both have the key
Spread(a, b) == [k \in DOMAIN a \cup DOMAIN b |-> IF k \in DOMAIN b THEN b[k] ELSE a[k]]

\* s.replace(/p/g, r): every occurrence of p replaced, left to right
RECURSIVE ReplaceAll(_, _, _)
ReplaceAll(s, p, r) ==
  IF s = <<>> THEN <<>>
  ELSE IF StartsWith(s, p) THEN r \o ReplaceAll(SubSeq(s, Len(p) + 1, Len(s)), p, r)
  ELSE <<Head(s)>> \o ReplaceAll(Tail(s), p, r)

NotSlashStar == <<"[", "^", "/", "]", "*">>

\* pattern.replace(/\*\*/g, '.*').replace(/\*/g, '[^/]*'): the second replacement
\* also rewrites the star the first one wrote
GlobSource(pattern) ==
  ReplaceAll(ReplaceAll(pattern, <<"*", "*">>, <<".", "*">>), <<"*">>, NotSlashStar)

\* the source of the regular expression as a list of terms: "[^/]*", "." (any
\* character) or a literal character
RECURSIVE RegExpTerms(_)
RegExpTerms(source) ==
  IF source = <<>> THEN <<>>
  ELSE IF StartsWith(source, NotSlashStar)
       THEN <<"[^/]*">> \o RegExpTerms(SubSeq(source, 6, Len(source)))
  ELSE <<Head(source)>> \o RegExpTerms(Tail(source))

\* the terms from position k on match s from position p on
RECURSIVE MatchHere(_, _, _, _)
MatchHere(terms, k, s, p) ==
  IF k > Len(terms) THEN TRUE
  ELSE IF terms[k] = "[^/]*"
       THEN \/ MatchHere(terms, k + 1, s, p)
            \/ p <= Len(s) /\ s[p] # "/" /\ MatchHere(terms, k, s, p + 1)
  ELSE IF terms[k] = "." THEN p <= Len(s) /\ MatchHere(terms, k + 1, s, p + 1)
  ELSE p <= Len(s) /\ s[p] = terms[k] /\ MatchHere(terms, k + 1, s, p + 1)

\* new RegExp(source).test(s): the expression is not anchored
RegExpTest(source, s) ==
  \E p \in 1..(Len(s) + 1) : MatchHere(RegExpTerms(source), 1, s, p)

\* override.files.some(pattern => regex.test(filePath))
matchesFile(override, path) ==
  \E n \in 1..Len(override.files) : RegExpTest(GlobSource(override.files[n]), path)

\* parseRuleConfig: a value [severity, options] or a bare severity
parseRuleConfig(rule) ==
  IF IsArray(rule) THEN [severity |-> rule.xs[1], options |-> rule.xs[2]]
  ELSE [severity |-> rule, options |-> Obj(<<>>)]

\* the loop over config.overrides from position k on
RECURSIVE ApplyOverrides(_, _, _, _)
ApplyOverrides(effectiveRules, overrides, k, path) ==
  IF k > Len(overrides) THEN effectiveRules
  ELSE ApplyOverrides(IF matchesFile(overrides[k], path)
                      THEN Spread(effectiveRules, overrides[k].rules)
                      ELSE effectiveRules,
                      overrides, k + 1, path)

getEffectiveRules(path, cfg) ==
  LET effectiveRules ==
        IF "overrides" \in DOMAIN cfg
        THEN ApplyOverrides(cfg.rules, cfg.overrides, 1, path)
        ELSE cfg.rules
  IN [ruleName \in DOMAIN effectiveRules |-> parseRuleConfig(effectiveRules[ruleName])]

\* the characters of a word of a message in which includes() looks for a word
Spell(word) ==
  CASE word = "user" -> <<"u", "s", "e", "r">>
    [] word = "team" -> <<"t", "e", "a", "m">>
    [] word = "version" -> <<"v", "e", "r", "s", "i", "o", "n">>
    [] word = "email" -> <<"e", "m", "a", "i", "l">>
    [] word = "semantic" -> <<"s", "e", "m", "a", "n", "t", "i", "c">>
    [] OTHER -> <<word>>

\* a string atom by atom, the words above spelled out
RECURSIVE Chars(_)
Chars(s) == IF s = <<>> THEN <<>> ELSE Spell(Head(s)) \o Chars(Tail(s))

\* message.includes(word)
MessageIncludes(message, word) == Includes(Chars(message), Spell(word))

\* variant: a reference error is mapped by its field and by the version its
\* message reports
mapErrorToRuleNameByField(error) ==
  IF error.type = "schema"
  THEN IF error.field = <<"summary">> THEN "best-practices/summary-required"
       ELSE IF error.field = <<"owners">> THEN "best-practices/owner-required"
       ELSE IF MessageIncludes(error.message, "email") THEN "schema/valid-email"
       ELSE IF MessageIncludes(error.message, "version")
               \/ MessageIncludes(error.message, "semantic") THEN "schema/valid-semver"
       ELSE "schema/required-fields"
  ELSE IF error.type = "reference"
  THEN IF error.field = <<"owners">> THEN "refs/owner-exists"
       ELSE IF Includes(error.message, <<"(", "version", ":">>) THEN "refs/valid-version-range"
       ELSE "schema/required-fields"
  ELSE "schema/required-fields"

mapErrorToRuleName(error) ==
  IF error.type = "schema"
  THEN IF error.field = <<"summary">> THEN "best-practices/summary-required"
       ELSE IF error.field = <<"owners">> THEN "best-practices/owner-required"
       ELSE IF MessageIncludes(error.message, "email") THEN "schema/valid-email"
       ELSE IF MessageIncludes(error.message, "version")
               \/ MessageIncludes(error.message, "semantic") THEN "schema/valid-semver"
       ELSE "schema/required-fields"
  ELSE IF error.type = "reference"
  THEN IF MessageIncludes(error.message, "user") \/ MessageIncludes(error.message, "team")
       THEN "refs/owner-exists"
       ELSE IF MessageIncludes(error.message, "version") THEN "refs/valid-version-range"
       ELSE "schema/required-fields"
  ELSE "schema/required-fields"

\* { ...error, severity }
WithSeverity(error, severity) ==
  [k \in DOMAIN error \cup {"severity"} |-> IF k = "severity" THEN severity ELSE error[k]]

\* variant: an error whose rule is not configured is kept as an error
RECURSIVE applyRuleSeverityKeepUnknown(_, _)
applyRuleSeverityKeepUnknown(errs, ruleSet) ==
  IF errs = <<>> THEN <<>>
  ELSE LET ruleName == mapErrorToRuleName(Head(errs))
           rest == applyRuleSeverityKeepUnknown(Tail(errs), ruleSet)
       IN IF ruleName \notin DOMAIN ruleSet THEN <<WithSeverity(Head(errs), "error")>> \o rest
          ELSE IF ruleSet[ruleName].severity = Str(<<"off">>) THEN rest
          ELSE <<WithSeverity(Head(errs),
                              IF ruleSet[ruleName].severity = Str(<<"warn">>)
                              THEN "warning" ELSE "error")>> \o rest

RECURSIVE applyRuleSeverity(_, _)
applyRuleSeverity(errs, ruleSet) ==
  IF errs = <<>> THEN <<>>
  ELSE LET ruleName == mapErrorToRuleName(Head(errs))
           rest == applyRuleSeverity(Tail(errs), ruleSet)
       IN IF ruleName \notin DOMAIN ruleSet \/ ruleSet[ruleName].severity = Str(<<"off">>)
          THEN rest
          ELSE <<WithSeverity(Head(errs),
                              IF ruleSet[ruleName].severity = Str(<<"warn">>)
                              THEN "warning" ELSE "error")>> \o rest

\* getEffectiveRules(filePath, config) is called and returns
GetEffectiveRules ==
  /\ config # None
  /\ parsedRules = None
  /\ parsedRules' = Some(getEffectiveRules(filePath, config[1]))
  /\ UNCHANGED <<parsedFiles, index, pc, i, references, j, found, errors, otherCall,
                 filePath, config, rules, processedErrors, cliVars>>

\* applyRuleSeverity(errors, rules) is called on the errors a validation returned
ApplyRuleSeverity ==
  /\ pc = "done"
  /\ rules # None
  /\ processedErrors = None
  /\ processedErrors' = Some(applyRuleSeverity(errors, rules[1]))
  /\ UNCHANGED <<parsedFiles, index, pc, i, references, j, found, errors, otherCall,
                 filePath, config, parsedRules, rules, cliVars>>

NextConfig == BuildStep \/ ExtractStep \/ CheckStep \/ GetEffectiveRules \/ ApplyRuleSeverity

(***************************************************************************)
(* The command line (src/src/cli/index.ts): scan, parse, validate, report,  *)
(* then the exit decision.  ran records the steps in the order they ran and *)
(* whether each threw.                                                      *)
(***************************************************************************)
MaxFiles == 2

MaxFindings == 2

Step(name, threw) == [step |-> name, threw |-> threw]

\* the catch block: whatever is thrown inside try ends the process with code 1
Caught(name) ==
  /\ ran' = Append(ran, Step(name, TRUE))
  /\ exitCode' = Some(1)
  /\ cliPc' = "exited"

Returned(name, next) ==
  /\ ran' = Append(ran, Step(name, FALSE))
  /\ cliPc' = next

\* the variant that fails on a warning whether or not --fail-on-warning is set
ShouldFailOnWarning(counts, opts) == counts.totalErrors > 0 \/ counts.totalWarnings > 0

\* the condition of the final process.exit(1)
ShouldFail(counts, opts) ==
  counts.totalErrors > 0 \/ (opts.failOnWarning /\ counts.totalWarnings > 0)

\* scanCatalogFiles; without files the process exits with code 0 at once
Scan ==
  /\ cliPc = "scan"
  /\ \/ /\ Caught("scan")
        /\ UNCHANGED fileCount
     \/ \E n \in 0..MaxFiles :
          /\ fileCount' = n
          /\ IF n = 0
             THEN /\ ran' = Append(ran, Step("scan", FALSE))
                  /\ exitCode' = Some(0)
                  /\ cliPc' = "exited"
             ELSE /\ Returned("scan", "parse")
                  /\ UNCHANGED exitCode
  /\ UNCHANGED <<parsedFiles, index, pc, i, references, j, found, errors, otherCall, configVars, options, summary>>

\* parseAllFiles
Parse ==
  /\ cliPc = "parse"
  /\ \/ Caught("parse")
     \/ Returned("parse", "validate") /\ UNCHANGED exitCode
  /\ UNCHANGED <<parsedFiles, index, pc, i, references, j, found, errors, otherCall, configVars, options, fileCount, summary>>

\* validateCatalog
Validate ==
  /\ cliPc = "validate"
  /\ \/ Caught("validate")
     \/ Returned("validate", "report") /\ UNCHANGED exitCode
  /\ UNCHANGED <<parsedFiles, index, pc, i, references, j, found, errors, otherCall, configVars, options, fileCount, summary>>

\* reportErrors prints the findings and returns how many errors and warnings it
\* counted
Report ==
  /\ cliPc = "report"
  /\ \E totalErrors \in 0..MaxFindings, totalWarnings \in 0..MaxFindings :
       summary' = Some([totalErrors |-> totalErrors, totalWarnings |-> totalWarnings])
  /\ Returned("report", "decide")
  /\ UNCHANGED <<parsedFiles, index, pc, i, references, j, found, errors, otherCall, configVars, options, fileCount, exitCode>>

\* the end of the action: process.exit(1) or a return, which ends the process with
\* code 0
Decide ==
  /\ cliPc = "decide"
  /\ exitCode' = IF ShouldFail(summary[1], options[1]) THEN Some(1) ELSE Some(0)
  /\ cliPc' = "exited"
  /\ UNCHANGED <<parsedFiles, index, pc, i, references, j, found, errors, otherCall, configVars, options, fileCount, summary, ran>>

NextCli == Scan \/ Parse \/ Validate \/ Report \/ Decide

(***************************************************************************)
(* The catalogs validateReferences is run on                               *)
(***************************************************************************)
MaxVersions == 2

MaxTargets == 1

MaxResources == 2

MaxRefs == 2

idA == <<"a">>

idB == <<"b">>

v100 == <<"1", ".", "0", ".", "0">>

v120 == <<"1", ".", "2", ".", "0">>

v200 == <<"2", ".", "0", ".", "0">>

v1000 == <<"1", "0", ".", "0", ".", "0">>

v001 == <<"0", ".", "0", ".", "1">>

v0012 == <<"0", ".", "0", ".", "1", "2">>

v021 == <<"0", ".", "2", ".", "1">>

v100beta == <<"1", ".", "0", ".", "0", "-", "b", "e", "t", "a">>

vStable == <<"s", "t", "a", "b", "l", "e">>

SeqsUpTo(S, n) == UNION {[1..k -> S] : k \in 1..n}

RECURSIVE SetsUpTo(_, _)
SetsUpTo(S, n) ==
  IF n = 0 THEN {{}}
  ELSE LET smaller == SetsUpTo(S, n - 1)
       IN smaller \cup {x \cup {e} : x \in smaller, e \in S}

RECURSIVE SetToSeq(_)
SetToSeq(S) ==
  IF S = {} THEN <<>>
  ELSE LET e == CHOOSE x \in S : TRUE IN <<e>> \o SetToSeq(S \ {e})

\* a frontmatter with the keys whose value is not undefined
Frontmatter(id, version) ==
  LET keys == (IF id = Undef THEN {} ELSE {"id"}) \cup (IF version = Undef THEN {} ELSE {"version"})
  IN [k \in keys |-> IF k = "id" THEN id ELSE version]

WithField(frontmatter, key, value) ==
  [k \in DOMAIN frontmatter \cup {key} |-> IF k = key THEN value ELSE frontmatter[k]]

\* requested versions: none, 'latest', exact, a string that is no semver, caret,
\* tilde and comparator ranges, x-patterns, strings with '.x' that are no range,
\* numbers
RequestedVersions ==
  {Undef, Str(LATEST), Str(v100), Str(vStable),
   Str(<<"^">> \o v100), Str(<<"^">> \o v200), Str(<<"~">> \o v120),
   Str(<<"^", "1", ".", "x">>), Str(<<">", "=">> \o v120 \o <<" ", "<">> \o v200),
   Str(<<"0", ".", "0", ".", "x">>), Str(<<"0", ".", "1", ".", "x">>),
   Str(<<"1", ".", "x">>), Str(<<"1", ".", "2", ".", "x">>),
   Str(v100 \o <<".", "x">>), Str(<<".", "x">>), Num(1), Num(0)}

\* the frontmatter version of a target: absent, a semantic version, a prerelease, a
\* string that is no semver, a range used as a version, a number
DeclaredVersions ==
  {Undef, Str(v100), Str(v120), Str(v200), Str(v1000), Str(v001), Str(v0012), Str(v021),
   Str(v100beta), Str(vStable), Str(<<"^">> \o v100), Num(1)}

\* resources that fall under the same or different keys of the index: events a in
\* several declared versions, users stored as a and b with and without a
\* frontmatter id, a service stored under the name of an inherited property
IndexedResources ==
  {ParsedFile("event", idA, Frontmatter(Undef, version)) :
     version \in {Undef, Str(v100), Str(v200), Str(<<>>), Num(1)}}
  \cup {ParsedFile("user", idA, Frontmatter(Str(idB), Undef)),
        ParsedFile("user", idB, Frontmatter(Undef, Str(v100))),
        ParsedFile("service", <<"constructor">>, Frontmatter(Undef, Str(v100)))}

\* every list of these resources, in every order and with repetitions
IndexCatalogs == SeqsUpTo(IndexedResources, MaxResources)

\* a service sending message a in a requested version, and the events a of the
\* catalog with their declared versions
VersionCatalogs ==
  {<<ParsedFile("service", <<"s">>,
       [version |-> Str(v100),
        sends |-> List(<<Obj(Frontmatter(Str(idA), requested))>>)])>>
     \o [k \in 1..Len(declared) |-> ParsedFile("event", idA, Frontmatter(Undef, declared[k]))] :
   requested \in RequestedVersions,
   declared \in {SetToSeq(S) : S \in SetsUpTo(DeclaredVersions, MaxVersions) \ {{}}}}

\* resources that can be referred to: one of each referable type, id a
Targets ==
  {ParsedFile(t, idA, Frontmatter(Undef, Str(v100))) :
     t \in {"service", "domain", "entity", "event", "command", "query"}}
  \cup {ParsedFile(t, idA, Frontmatter(Undef, Undef)) : t \in {"user", "team"}}

TargetLists == {SetToSeq(S) : S \in SetsUpTo(Targets, MaxTargets)}

RefA == Obj([id |-> Str(idA)])

RefB == Obj([id |-> Str(idB)])

RefA100 == Obj([id |-> Str(idA), version |-> Str(v100)])

\* the well-formed items of a reference-bearing field
WellFormedItems(key) ==
  CASE key \in {"owners", "members"} -> {Str(idA), Str(idB)}
    [] key = "steps" ->
         {Obj([message |-> RefA]), Obj([service |-> RefA100]), Obj([title |-> Str(idA)]),
          Obj([message |-> RefB, service |-> RefA])}
    [] key = "properties" ->
         {Obj([references |-> Str(idA)]), Obj([references |-> Str(idB)]),
          Obj([name |-> Str(idA)])}
    [] OTHER -> {RefA, RefB, RefA100}

\* a resource type with one of its reference-bearing fields, and fields a resource
\* of that type is not read for
FieldsRead ==
  {<<"domain", "services">>, <<"domain", "domains">>, <<"domain", "entities">>,
   <<"service", "sends">>, <<"service", "receives">>, <<"service", "entities">>,
   <<"flow", "steps">>, <<"entity", "properties">>, <<"team", "members">>,
   <<"service", "owners">>, <<"user", "owners">>}

FieldsNotRead ==
  {<<"domain", "sends">>, <<"service", "members">>, <<"event", "steps">>,
   <<"flow", "properties">>}

Referrer(resourceType, key, value) ==
  ParsedFile(resourceType, <<"r">>, WithField(Frontmatter(Undef, Str(v100)), key, value))

\* a resource r with one field of references, followed by the targets
ReferenceCatalogs ==
  UNION {{<<Referrer(c[1], c[2], List(items))>> \o targets :
            items \in SeqsUpTo(WellFormedItems(c[2]), MaxRefs), targets \in TargetLists} :
         c \in FieldsRead \cup FieldsNotRead}

\* what a reference-bearing field holds when it is not a list of well-formed
\* items: a value that is no list, or a list of null, a bare string (a non-object
\* where a reference object is expected, a bare id for owners and members) and an
\* object without id
MalformedValues ==
  {Null, Str(idA), Num(1), RefA}
  \cup {List(items) : items \in SeqsUpTo({Null, Str(idA), Obj(<<>>)}, MaxRefs)}

\* a resource r with one malformed reference-bearing field, followed by the targets
ShapeCatalogs ==
  {<<Referrer(c[1], c[2], value)>> \o targets :
     c \in FieldsRead, value \in MalformedValues, targets \in TargetLists}

\* references whose id is a property every object inherits, and a resource stored
\* under such an id
InheritedIdCatalogs ==
  {<<Referrer("domain", "services", List(<<Obj(Frontmatter(Str(key), version))>>))>> \o targets :
     key \in ObjectPrototypeKeys, version \in {Undef, Str(LATEST), Str(v100)},
     targets \in TargetLists}
  \cup {<<Referrer("service", "owners", List(<<Str(key)>>))>> \o targets :
          key \in ObjectPrototypeKeys, targets \in TargetLists}
  \cup {targets \o <<ParsedFile("service", key, Frontmatter(Undef, Str(v100)))>> :
          key \in ObjectPrototypeKeys, targets \in TargetLists}

\* resources of every type stored under id a, with a frontmatter id that is absent,
\* another string, the empty string or no string; a user stored under the name of
\* an inherited property
AliasedResources ==
  {ParsedFile(t, idA, Frontmatter(id, Undef)) :
     t \in ResourceTypes, id \in {Undef, Str(idB), Str(<<>>), Num(7)}}
  \cup {ParsedFile("user", <<"constructor">>, Frontmatter(Str(idB), Undef))}

\* a domain and a service that refer to a and to b in every field they are read
\* for, then aliased resources
AliasCatalogs ==
  {<<ParsedFile("domain", <<"r">>,
       [services |-> List(<<RefA, RefB>>), domains |-> List(<<RefA, RefB>>),
        entities |-> List(<<RefA, RefB>>), owners |-> List(<<Str(idA), Str(idB)>>)]),
     ParsedFile("service", <<"r">>,
       [sends |-> List(<<RefA, RefB>>)])>>
     \o SetToSeq(S) :
   S \in SetsUpTo(AliasedResources, MaxResources)}

\* the items of a field of a referring resource that is reported: references to a
\* and b without version, with a range, with an empty and with a numeric version
ReportedItems(key) ==
  IF key \in {"owners", "members"} THEN {Str(idA), Str(idB)}
  ELSE {RefB, Obj([id |-> Str(idB), version |-> Str(<<"^">> \o v100)]),
        Obj([id |-> Str(idA), version |-> Str(<<>>)]),
        Obj([id |-> Str(idA), version |-> Num(1)])}

\* a referring resource stored as r, with or without a frontmatter id b of its
\* own, whose references find no target or the service a
ReportCatalogs ==
  UNION {{<<ParsedFile(c[1], <<"r">>,
              WithField(Frontmatter(id, Str(v100)), c[2], List(items)))>> \o targets :
            items \in SeqsUpTo(ReportedItems(c[2]), MaxRefs),
            id \in {Undef, Str(idB)},
            targets \in {<<>>, <<ParsedFile("service", idA, Frontmatter(Undef, Str(v200)))>>}} :
         c \in {<<"domain", "services">>, <<"service", "sends">>, <<"domain", "owners">>,
                <<"user", "owners">>, <<"team", "members">>}}

\* the parser's record of a file whose frontmatter declares the given
\* <<key, value>> fields in this order: raw keeps the keys as the file text has them
DeclaredFile(resourceType, resourceId, fields) ==
  [file |-> ParsedFile(resourceType, resourceId, <<>>).file,
   frontmatter |-> [k \in {fields[n][1] : n \in 1..Len(fields)} |->
                      fields[CHOOSE n \in 1..Len(fields) : fields[n][1] = k][2]],
   raw |-> [n \in 1..Len(fields) |-> fields[n][1]]]

\* the orderings of a set of keys
KeyOrders(S) == {p \in [1..Cardinality(S) -> S] : \A k \in S : \E n \in DOMAIN p : p[n] = k}

\* the value a field of references to b and a is declared with
DeclaredValue(key, items) ==
  CASE key \in {"owners", "members"} ->
         List([n \in 1..Len(items) |-> Get(items[n], "id")])
    [] key = "steps" ->
         List([n \in 1..Len(items) |-> Obj([message |-> items[n], service |-> items[n]])])
    [] OTHER -> List(items)

\* a resource r declaring its reference-bearing fields in every order; no
\* reference resolves
OrderCatalogs ==
  UNION {{<<DeclaredFile(c[1], <<"r">>, [n \in DOMAIN p |-> <<p[n], DeclaredValue(p[n], items)>>])>> :
            p \in KeyOrders(c[2]), items \in SeqsUpTo({RefA, RefB}, MaxRefs)} :
         c \in {<<"domain", {"owners", "entities", "services"}>>,
                <<"service", {"owners", "receives", "sends"}>>,
                <<"service", {"entities", "sends"}>>,
                <<"flow", {"owners", "steps"}>>,
                <<"team", {"members", "owners"}>>}}

\* the lists a resource of a cycle refers with: to a, to b, to a in its version
CycleLists == {<<>>} \cup SeqsUpTo({RefA, RefB, RefA100}, MaxRefs)

\* catalogs whose references form cycles: the domains a and b listing each other
\* and themselves, in either order of the input, and an entity, a user and a team
\* referring to themselves
CycleCatalogs ==
  UNION {{<<ParsedFile("domain", idA, WithField(Frontmatter(Undef, version), "domains", List(la))),
            ParsedFile("domain", idB, WithField(Frontmatter(Undef, Str(v200)), "domains", List(lb)))>>,
          <<ParsedFile("domain", idB, WithField(Frontmatter(Undef, Str(v200)), "domains", List(lb))),
            ParsedFile("domain", idA, WithField(Frontmatter(Undef, version), "domains", List(la)))>>} :
         la \in CycleLists, lb \in CycleLists, version \in {Undef, Str(v100)}}
  \cup {<<ParsedFile("domain", idB, [id |-> Str(idA), domains |-> List(<<RefA>>)])>>,
        <<ParsedFile("entity", idA, [properties |-> List(<<Obj([references |-> Str(idA)])>>)])>>,
        <<ParsedFile("user", idA, [owners |-> List(<<Str(idA)>>)])>>,
        <<ParsedFile("team", idA, [owners |-> List(<<Str(idA)>>), members |-> List(<<Str(idB)>>)]),
          ParsedFile("user", idB, [owners |-> List(<<Str(idA)>>)])>>}

\* a domain r referring to the domain b, a domain stored as a whose frontmatter id
\* is b, and a domain stored as b without frontmatter id, each in a version of its
\* own, in either order
SharedIdCatalogs ==
  UNION {{<<Referrer("domain", "domains", List(<<Obj(Frontmatter(Str(idB), requested))>>)),
            ParsedFile("domain", idA, Frontmatter(Str(idB), va)),
            ParsedFile("domain", idB, Frontmatter(Undef, vb))>>,
          <<ParsedFile("domain", idB, Frontmatter(Undef, vb)),
            ParsedFile("domain", idA, Frontmatter(Str(idB), va)),
            Referrer("domain", "domains", List(<<Obj(Frontmatter(Str(idB), requested))>>))>>} :
         requested \in {Undef, Str(LATEST), Str(v100), Str(v200), Str(<<"^">> \o v100),
                        Str(<<"~">> \o v120)},
         va \in {Undef, Str(v100), Str(v200)},
         vb \in {Undef, Str(v100), Str(v200), Str(v120)}}

MaxOverrides == 2

MaxErrors == 2

\* file paths, a letter for a path segment: services/experimental/new-service/
\* index.mdx, experimental/new-service/index.mdx, services/archived/index.mdx
pathNested == <<"s", "/", "x", "/", "n", "/", "i">>

pathTop == <<"x", "/", "n", "/", "i">>

pathArchived == <<"s", "/", "a", "/", "i">>

\* **/experimental/**, **/experimental/new-**, **/archived/**, experimental/*
globExperimental == <<"*", "*", "/", "x", "/", "*", "*">>

globExperimentalNew == <<"*", "*", "/", "x", "/", "n", "*", "*">>

globArchived == <<"*", "*", "/", "a", "/", "*", "*">>

globTop == <<"x", "/", "*">>

Severity(word) == Str(<<word>>)

\* the rules of a configuration file merged over nothing, and DEFAULT_RULES
BaseRules ==
  {[n \in {"schema/required-fields", "refs/owner-exists"} |->
      IF n = "schema/required-fields" THEN Severity("warn") ELSE Severity("error")],
   [n \in {"schema/required-fields"} |-> Severity("error")],
   [n \in {"schema/required-fields", "refs/owner-exists"} |->
      IF n = "schema/required-fields" THEN List(<<Severity("warn"), Obj([strict |-> Num(1)])>>)
      ELSE Severity("off")]}

DEFAULT_RULES ==
  [n \in {"schema/required-fields", "schema/valid-semver", "schema/valid-email",
          "refs/owner-exists", "refs/valid-version-range",
          "best-practices/summary-required", "best-practices/owner-required",
          "naming/service-id-format", "naming/event-id-format",
          "versions/consistent-format", "versions/no-deprecated"} |-> Severity("error")]

\* overrides: the patterns of one, and the rules it sets
OverrideFiles ==
  {<<globExperimental>>, <<globExperimentalNew>>, <<globArchived, globExperimental>>,
   <<globTop>>, <<>>}

OverrideRules ==
  {[n \in {"refs/owner-exists", "best-practices/owner-required"} |->
      IF n = "refs/owner-exists" THEN Severity("off") ELSE Severity("warn")],
   [n \in {"schema/required-fields"} |-> Severity("off")],
   [n \in {"schema/required-fields"} |->
      List(<<Severity("error"), Obj([strict |-> Num(0)])>>)]}

Overrides == {[files |-> f, rules |-> r] : f \in OverrideFiles, r \in OverrideRules}

\* a configuration as loadConfig returns it, and one without overrides
Configs ==
  {[rules |-> r, ignorePatterns |-> <<>>, overrides |-> o] :
     r \in BaseRules \cup {DEFAULT_RULES}, o \in {<<>>} \cup SeqsUpTo(Overrides, MaxOverrides)}
  \cup {[rules |-> r] : r \in BaseRules}

\* errors of the schema and best-practices validators and of validateReferences
SchemaError(field, message) ==
  [type |-> "schema", resource |-> <<"service", "/", "user-service">>, field |-> <<field>>,
   message |-> message, file |-> <<"services", "/", "user-service", "/", "index.mdx">>,
   severity |-> "error"]

SampleErrors ==
  {SchemaError("summary", <<"Summary", " ", "is", " ", "required", " ", "for", " ", "better",
                            " ", "documentation">>),
   SchemaError("owners", <<"At", " ", "least", " ", "one", " ", "owner", " ", "is", " ",
                           "required">>),
   SchemaError("email", <<"email", ":", " ", "Invalid", " ", "email">>),
   SchemaError("version", <<"version", ":", " ", "Invalid", " ", "semantic", " ", "version",
                             " ", "format">>),
   SchemaError("name", <<"name", ":", " ", "Required">>),
   errorOf(ParsedFile("service", <<"r">>, <<>>),
           ReferenceInfo(Obj([id |-> Str(<<"missing-owner">>)]), <<"user", "team">>, <<"owners">>)),
   errorOf(ParsedFile("service", <<"r">>, <<>>),
           ReferenceInfo(RefA, MessageTypes, <<"sends">>)),
   errorOf(ParsedFile("service", <<"r">>, <<>>),
           ReferenceInfo(RefA100, MessageTypes, <<"sends">>))}

\* rules as getEffectiveRules returns them: every choice of missing, 'error',
\* 'warn' and 'off' for three rules, the defaults, and the defaults with one rule
\* changed or a rule no error maps to
RuleSets ==
  UNION {[S -> {parseRuleConfig(Severity(w)) : w \in {"error", "warn", "off"}}] :
           S \in SUBSET {"best-practices/summary-required", "refs/owner-exists",
                         "schema/required-fields"}}
  \cup {[n \in DOMAIN DEFAULT_RULES \cup extra |->
           IF n \in changed THEN parseRuleConfig(Severity(w))
           ELSE parseRuleConfig(Severity("error"))] :
          extra \in {{}, {"unknown/rule"}},
          changed \in {{}, {"schema/valid-email"}, {"schema/valid-semver"},
                       {"refs/valid-version-range"}, {"unknown/rule"},
                       {"refs/owner-exists", "refs/valid-version-range"}},
          w \in {"warn", "off"}}

\* ids that hold the words the rule mapping looks for: user-s, teams, versions
idUserService == <<"u", "s", "e", "r", "-", "s">>

idTeams == <<"t", "e", "a", "m", "s">>

idVersions == <<"v", "e", "r", "s", "i", "o", "n", "s">>

\* the item of a reference-bearing field that names id, in a version or in none
NamedItem(key, id, version) ==
  CASE key \in {"owners", "members"} -> Str(id)
    [] key = "steps" -> Obj([service |-> Obj(Frontmatter(Str(id), version))])
    [] key = "properties" -> Obj([references |-> Str(id)])
    [] OTHER -> Obj(Frontmatter(Str(id), version))

\* a resource r with one reference, to a missing resource
MissingCatalogs ==
  {<<Referrer(c[1], c[2], List(<<NamedItem(c[2], id, version)>>))>> :
     c \in FieldsRead, id \in {idA, idUserService, idTeams, idVersions},
     version \in {Undef, Str(v100)}}

\* no validation is under way (at "idle"), or the validators have returned errs (at
\* "done")
AfterCall(at, errs) ==
  /\ parsedFiles = <<>>
  /\ index = <<>>
  /\ pc = at
  /\ i = 0
  /\ references = <<>>
  /\ j = 0
  /\ found = FALSE
  /\ errors = errs

\* getEffectiveRules is about to be called on a file path and a configuration, or
\* applyRuleSeverity on sample errors, or validateReferences on a catalog with a
\* missing reference and applyRuleSeverity on what it returns
InitConfig ==
  /\ otherCall = NoCall
  /\ CliIdle
  /\ parsedRules = None
  /\ processedErrors = None
  /\ \/ /\ config \in {Some(c) : c \in Configs}
        /\ filePath \in {pathNested, pathTop, pathArchived}
        /\ rules = None
        /\ AfterCall("idle", <<>>)
     \/ /\ config = None
        /\ filePath = <<>>
        /\ rules \in {Some(r) : r \in RuleSets}
        /\ \E errs \in {<<>>} \cup SeqsUpTo(SampleErrors, MaxErrors) : AfterCall("done", errs)
     \/ /\ config = None
        /\ filePath = <<>>
        /\ rules \in {Some(r) : r \in RuleSets}
        /\ \E catalog \in MissingCatalogs : Start(catalog)

SpecConfig == InitConfig /\ [][NextConfig]_vars

\* the command is started with its two flags, nothing has run
InitCli ==
  /\ otherCall = NoCall
  /\ ConfigIdle
  /\ AfterCall("idle", <<>>)
  /\ cliPc = "scan"
  /\ options \in {Some([verbose |-> v, failOnWarning |-> f]) : v \in BOOLEAN, f \in BOOLEAN}
  /\ fileCount = 0
  /\ summary = None
  /\ exitCode = None
  /\ ran = <<>>

SpecCli == InitCli /\ [][NextCli]_vars

Init ==
  /\ otherCall = NoCall
  /\ ConfigIdle
  /\ CliIdle
  /\ \E files \in IndexCatalogs \cup OrderCatalogs \cup VersionCatalogs \cup ReferenceCatalogs \cup ShapeCatalogs
                    \cup InheritedIdCatalogs \cup AliasCatalogs \cup ReportCatalogs
                    \cup CycleCatalogs \cup SharedIdCatalogs :
       Start(files)

Spec == Init /\ [][Next]_vars

\* a call over a catalog with cycles, with well-formed references that resolve or
\* not, with malformed fields or with the ids every object inherits
InitLive ==
  /\ otherCall = NoCall
  /\ ConfigIdle
  /\ CliIdle
  /\ \E files \in CycleCatalogs \cup ReferenceCatalogs \cup ShapeCatalogs
                    \cup InheritedIdCatalogs :
       Start(files)

\* the call runs to its end: the loops are sequential code that nothing suspends,
\* so a step that can be taken is taken
SpecLive == InitLive /\ [][Next]_vars /\ WF_vars(Next)

\* catalogs for two calls: a domain referring to the services a and b, the same
\* with the service a, the services alone, a service sending a in a version with
\* the event in another version, a flow whose step is null
PairedCatalogs ==
  {<<Referrer("domain", "services", List(<<RefA, RefB>>))>>,
   <<Referrer("domain", "services", List(<<RefA, RefB>>)),
     ParsedFile("service", idA, Frontmatter(Undef, Str(v100)))>>,
   <<ParsedFile("service", idA, Frontmatter(Undef, Str(v100)))>>,
   <<ParsedFile("service", idB, Frontmatter(Undef, Undef)),
     ParsedFile("service", idA, Frontmatter(Undef, Str(v200)))>>,
   <<Referrer("service", "sends", List(<<RefA100>>)),
     ParsedFile("event", idA, Frontmatter(Undef, Str(v200)))>>,
   <<ParsedFile("event", idA, Frontmatter(Undef, Str(v100)))>>,
   <<Referrer("service", "owners", List(<<Str(idA)>>)), Referrer("flow", "steps", List(<<Null>>))>>}

\* a call over one catalog is under way; a second call, over the same or another
\* catalog, is about to be made
InitPair ==
  \E a \in PairedCatalogs, b \in PairedCatalogs :
    /\ otherCall = CallStart(a)
    /\ parsedFiles = b
    /\ pc = "idle"
    /\ index = <<>>
    /\ i = 0
    /\ references = <<>>
    /\ j = 0
    /\ found = FALSE
    /\ errors = <<>>
    /\ ConfigIdle
    /\ CliIdle

SpecPair == InitPair /\ [][NextPair]_vars

(***************************************************************************)
(* Properties                                                              *)
(***************************************************************************)
\* the reference checked last: found is its result against index
LastRef == references[j]

RefId(info) == JsString(Get(info.ref, "id"))

RefVersion(info) == Get(info.ref, "version")

TypesOf(info) == {info.possibleTypes[k] : k \in 1..Len(info.possibleTypes)}

\* the id is an own key of the index under the type
Indexed(type, id) == type \in DOMAIN index /\ id \in DOMAIN index[type]

VersionSet(type, id) == IF Indexed(type, id) THEN index[type][id] ELSE {}

\* the versions indexed for the reference's id under its possible types
TargetVersions(info) == UNION {VersionSet(t, RefId(info)) : t \in TypesOf(info)}

ErrorSet == {errors[k] : k \in 1..Len(errors)}

\* a caret, tilde or comparator range
IsRange(v) == IsString(v) /\ v.s # <<>> /\ v.s[1] \in {"^", "~", ">", "<", "="}

\* M.x or M.m.x
IsXPattern(v) ==
  /\ IsString(v)
  /\ LET parts == Split(v.s, ".")
     IN /\ Len(parts) \in {2, 3}
        /\ parts[Len(parts)] = <<"x">>
        /\ \A k \in 1..(Len(parts) - 1) : IsNumericId(parts[k])

\* the version has the major (and minor, when given) of the x-pattern
UnderXPattern(version, pattern) ==
  LET parts == Split(pattern, ".")
      sv == ParseSemVer(version)
  IN /\ sv.ok
     /\ sv.v[1] = NumVal(parts[1])
     /\ (Len(parts) = 3 => sv.v[2] = NumVal(parts[2]))

\* the files of the catalog
Files == {parsedFiles[k] : k \in 1..Len(parsedFiles)}

\* the index is complete: buildResourceIndex has returned
IndexBuilt == pc \in {"extract", "check", "done"}

\* the reference carries a string id indexed under none of its possible types
Missing(info) ==
  /\ ~GetThrows(info.ref)
  /\ IsString(Get(info.ref, "id"))
  /\ \A t \in TypesOf(info) : ~Indexed(t, RefId(info))

\* C1: a reference without version whose id is indexed under one of its possible
\* types, with any version set, resolves and leaves no error
C1_ExistenceOnly ==
  (/\ j >= 1
   /\ ~Truthy(RefVersion(LastRef))
   /\ \E t \in TypesOf(LastRef) : Indexed(t, RefId(LastRef)))
  => found /\ errorOf(parsedFiles[i], LastRef) \notin ErrorSet

C1_Witness ==
  /\ j >= 1
  /\ ~Truthy(RefVersion(LastRef))
  /\ TargetVersions(LastRef) = {LATEST}
  /\ found
  /\ errors = <<>>

\* C2: checking a reference whose id is indexed under none of its possible types
\* appends exactly one error, whose message contains the id
C2_MissingTarget ==
  [][(pc = "check" /\ Missing(references[j + 1]))
     => /\ pc' # "thrown"
        /\ Len(errors') = Len(errors) + 1
        /\ SubSeq(errors', 1, Len(errors)) = errors
        /\ Includes(errors'[Len(errors')].message, RefId(references[j + 1]))]_vars

\* C3: a range request that is not verbatim in the target's version set resolves
\* exactly when some entry of the set is a valid semantic version satisfying the
\* range (^1.0.0 against {1.2.0}, not against {2.0.0}); against an unversioned
\* target, whose set holds only 'latest', it is reported as an error
C3_RangeResolution ==
  (/\ j >= 1
   /\ IsRange(RefVersion(LastRef))
   /\ RefVersion(LastRef).s \notin TargetVersions(LastRef))
  => /\ found <=> \E v \in TargetVersions(LastRef) :
                    semverValid(Str(v)) /\ semverSatisfies(Str(v), RefVersion(LastRef))
     /\ (RefVersion(LastRef).s = <<"^">> \o v100 /\ TargetVersions(LastRef) = {v120}) => found
     /\ (RefVersion(LastRef).s = <<"^">> \o v100 /\ TargetVersions(LastRef) = {v200}) => ~found
     /\ TargetVersions(LastRef) = {LATEST} =>
          /\ ~found
          /\ errors # <<>>
          /\ errors[Len(errors)] = errorOf(parsedFiles[i], LastRef)

C3_Witness ==
  /\ j >= 1
  /\ RefVersion(LastRef) = Str(<<"^">> \o v100)
  /\ TargetVersions(LastRef) = {v120, LATEST}
  /\ found

\* C4: an x-pattern request M.x or M.m.x resolves exactly when some valid semantic
\* version of the set has major M (and minor m)
C4_XPatternByMajorMinor ==
  (j >= 1 /\ IsXPattern(RefVersion(LastRef)))
  => (found <=> \E v \in TargetVersions(LastRef) : UnderXPattern(v, RefVersion(LastRef).s))

\* C5: a request for 'latest' resolves against every target indexed under one of
\* the possible types, whatever its version set holds, and leaves no error
C5_LatestResolves ==
  (/\ j >= 1
   /\ RefVersion(LastRef) = Str(LATEST)
   /\ \E t \in TypesOf(LastRef) : Indexed(t, RefId(LastRef)))
  => found /\ errorOf(parsedFiles[i], LastRef) \notin ErrorSet

C5_Witness ==
  /\ j >= 1
  /\ RefVersion(LastRef) = Str(LATEST)
  /\ TargetVersions(LastRef) = {v200, vStable}
  /\ found

\* C6: a request that is verbatim a member of the target's version set resolves,
\* also when it is no semantic version
C6_ExactResolves ==
  (/\ j >= 1
   /\ IsString(RefVersion(LastRef))
   /\ RefVersion(LastRef).s \in TargetVersions(LastRef))
  => found /\ errorOf(parsedFiles[i], LastRef) \notin ErrorSet

C6_Witness ==
  /\ j >= 1
  /\ RefVersion(LastRef) = Str(vStable)
  /\ TargetVersions(LastRef) = {vStable, v100}
  /\ found

Resolves(resourceType, id) ==
  checkResourceExists(Obj([id |-> Str(id)]), resourceType, index)

\* the statement of C7 and C8 for one resource: it is filed under key and a
\* reference by key resolves; other is no key of the index unless another resource
\* is filed under it, and a reference by other does not resolve
FiledUnder(f, key, other) ==
  /\ Indexed(f.file.resourceType, key)
  /\ Resolves(f.file.resourceType, key) = "true"
  /\ (other # key /\ \A g \in Files : g.file.resourceType = f.file.resourceType => canonicalId(g) # other)
       => /\ ~Indexed(f.file.resourceType, other)
          /\ other \notin ObjectPrototypeKeys => Resolves(f.file.resourceType, other) = "false"

\* C7 as stated: a user, team or domain whose frontmatter carries a string id is
\* filed under that id and not under its storage-derived id
C7_FrontmatterIdKeys ==
  IndexBuilt =>
    \A f \in Files :
      (f.file.resourceType \in {"user", "team", "domain"} /\ IsString(FM(f, "id")))
      => FiledUnder(f, FM(f, "id").s, f.file.resourceId)

\* C7 amended: the same for a frontmatter id that is a non-empty string
C7_NonEmptyFrontmatterIdKeys ==
  IndexBuilt =>
    \A f \in Files :
      (/\ f.file.resourceType \in {"user", "team", "domain"}
       /\ IsString(FM(f, "id"))
       /\ FM(f, "id").s # <<>>)
      => FiledUnder(f, FM(f, "id").s, f.file.resourceId)

\* an owner reference by the frontmatter id b of a user stored as a has resolved,
\* the one by a is reported
C7_Witness ==
  /\ j >= 1
  /\ LastRef.field = <<"owners">>
  /\ RefId(LastRef) = idB
  /\ found
  /\ ParsedFile("user", idA, Frontmatter(Str(idB), Undef)) \in Files
  /\ ~Indexed("user", idA)
  /\ \E e \in ErrorSet : e.field = <<"owners">> /\ Includes(e.message, idA)

\* C8: a resource of any other type is filed under its storage-derived id, also
\* when its frontmatter id is another string
C8_StorageIdKeys ==
  IndexBuilt =>
    \A f \in Files :
      (f.file.resourceType \notin {"user", "team", "domain"})
      => FiledUnder(f, f.file.resourceId,
                    IF IsString(FM(f, "id")) THEN FM(f, "id").s ELSE f.file.resourceId)

\* a services reference by the storage id a of a service with frontmatter id b has
\* resolved, and b is no key
C8_Witness ==
  /\ j >= 1
  /\ LastRef.field = <<"services">>
  /\ RefId(LastRef) = idA
  /\ found
  /\ ParsedFile("service", idA, Frontmatter(Str(idB), Undef)) \in Files
  /\ ~Indexed("service", idB)

\* C9: a reference with several possible types resolves as soon as one of them
\* satisfies it, whatever the position of that type
C9_AnyTypeResolves ==
  (/\ j >= 1
   /\ Len(LastRef.possibleTypes) > 1
   /\ \E t \in TypesOf(LastRef) : checkResourceExists(LastRef.ref, t, index) = "true")
  => found /\ errorOf(parsedFiles[i], LastRef) \notin ErrorSet

\* a message reference has resolved under command alone
C9_Witness ==
  /\ j >= 1
  /\ LastRef.possibleTypes = MessageTypes
  /\ Indexed("command", RefId(LastRef))
  /\ ~Indexed("event", RefId(LastRef))
  /\ ~Indexed("query", RefId(LastRef))
  /\ found
  /\ errors = <<>>

\* C10: the call never raises for the shape of a reference-bearing field (the only
\* exception left is the one of a resource filed under an inherited property name)
C10_NoThrowOnShape ==
  pc = "thrown" => \E f \in Files : canonicalId(f) \in ObjectPrototypeKeys

\* the version is a string that new Range accepts
ParsesAsRange(v) ==
  /\ IsString(v)
  /\ \A k \in 1..Len(ParseRange(v.s)) : ParseRange(v.s)[k].ok

\* the reference carries a version token that is no semver range
Unparsed(info) ==
  /\ ~GetThrows(info.ref)
  /\ RefVersion(info) # Undef
  /\ ~ParsesAsRange(RefVersion(info))

\* the version token is verbatim in a version set of the reference's target
VerbatimMember(info) ==
  IsString(RefVersion(info)) /\ RefVersion(info).s \in TargetVersions(info)

\* C11 as stated: checking a reference whose version token is no semver range (a
\* string that does not parse, or a value that is no string) does not raise, and
\* the reference resolves exactly when the token is verbatim in the target's
\* version set
C11_UnparsedExactOnly ==
  [][(pc = "check" /\ Unparsed(references[j + 1]))
     => /\ pc' # "thrown"
        /\ found' <=> VerbatimMember(references[j + 1])]_vars

\* C11 amended: the same for a token that is truthy, is not 'latest' and does not
\* contain '.x'
C11_UnparsedPlainExactOnly ==
  [][(/\ pc = "check"
      /\ Unparsed(references[j + 1])
      /\ Truthy(RefVersion(references[j + 1]))
      /\ RefVersion(references[j + 1]) # Str(LATEST)
      /\ ~(/\ IsString(RefVersion(references[j + 1]))
           /\ Includes(RefVersion(references[j + 1]).s, <<".", "x">>)))
     => /\ pc' # "thrown"
        /\ found' <=> VerbatimMember(references[j + 1])]_vars

\* the number 1 was requested of a target whose set holds only 'latest': reported
C11_Witness ==
  /\ j >= 1
  /\ RefVersion(LastRef) = Num(1)
  /\ TargetVersions(LastRef) = {LATEST}
  /\ ~found
  /\ errors # <<>>

\* the last check appended an error
Reported == j >= 1 /\ ~found

LastError == errors[Len(errors)]

\* C12: the rule of a reference error is refs/owner-exists for the field owners,
\* else refs/valid-version-range when the reference carries a version (one that
\* is not empty), else refs/resource-exists
C12_RulePrecedence ==
  Reported =>
    /\ LastRef.field = <<"owners">> => LastError.rule = "refs/owner-exists"
    /\ (LastRef.field # <<"owners">> /\ Truthy(RefVersion(LastRef)))
         => LastError.rule = "refs/valid-version-range"
    /\ (LastRef.field # <<"owners">> /\ ~Truthy(RefVersion(LastRef)))
         => LastError.rule = "refs/resource-exists"

\* a reference with a version and then one without have been reported
C12_Witness ==
  /\ Reported
  /\ Len(errors) = 2
  /\ errors[1].rule = "refs/valid-version-range"
  /\ errors[2].rule = "refs/resource-exists"
  /\ Truthy(RefVersion(references[1]))

\* C13: the rule names the cause: an id indexed under none of the possible types is
\* reported as refs/resource-exists or refs/owner-exists, and
\* refs/valid-version-range is reported only for a target that exists
C13_RuleNamesCause ==
  Reported =>
    /\ (\A t \in TypesOf(LastRef) : ~Indexed(t, RefId(LastRef)))
         => LastError.rule \in {"refs/resource-exists", "refs/owner-exists"}
    /\ LastError.rule = "refs/valid-version-range"
         => \E t \in TypesOf(LastRef) : Indexed(t, RefId(LastRef))

\* the label of the possible types in a message
TypeLabel(possibleTypes) ==
  CASE possibleTypes = <<"event", "command", "query">> -> <<"event", "/", "command", "/", "query">>
    [] possibleTypes = <<"user", "team">> -> <<"user", "/", "team">>
    [] OTHER -> possibleTypes

\* C14: the message of a reference error is 'Referenced <label> "<id>"<suffix> does
\* not exist', the label being the possible types joined with '/', the suffix
\* ' (version: <v>)' for a reference that carries a version
C14_MessageText ==
  Reported =>
    LastError.message =
      <<"Referenced", " ">> \o TypeLabel(LastRef.possibleTypes) \o <<" ", "\"">>
        \o RefId(LastRef) \o <<"\"">>
        \o (IF Truthy(RefVersion(LastRef))
            THEN <<" ", "(", "version", ":", " ">> \o JsString(RefVersion(LastRef)) \o <<")">>
            ELSE <<>>)
        \o <<" ", "does", " ", "not", " ", "exist">>

\* a message reference to b in ^1.0.0 was reported under its three types
C14_Witness ==
  /\ Reported
  /\ LastError.message =
       <<"Referenced", " ", "event", "/", "command", "/", "query", " ", "\"", "b", "\"",
         " ", "(", "version", ":", " ", "^", "1", ".", "0", ".", "0", ")",
         " ", "does", " ", "not", " ", "exist">>

\* C15: a reference error names the referring resource by its type and
\* storage-derived id and by its relative path, not by the frontmatter id it is
\* indexed under
C15_ReferrerByStorageId ==
  /\ Reported =>
       /\ LastError.resource = <<parsedFiles[i].file.resourceType, "/">> \o parsedFiles[i].file.resourceId
       /\ LastError.file = parsedFiles[i].file.relativePath
       /\ canonicalId(parsedFiles[i]) # parsedFiles[i].file.resourceId
            => LastError.resource # <<parsedFiles[i].file.resourceType, "/">> \o canonicalId(parsedFiles[i])
  /\ \A e \in ErrorSet : \E f \in Files :
       /\ e.resource = <<f.file.resourceType, "/">> \o f.file.resourceId
       /\ e.file = f.file.relativePath

\* a domain stored as r and indexed under b was reported as domain/r
C15_Witness ==
  /\ Reported
  /\ parsedFiles[i].file.resourceType = "domain"
  /\ canonicalId(parsedFiles[i]) = idB
  /\ LastError.resource = <<"domain", "/", "r">>
  /\ LastError.file = <<"domain", "s", "/", "r", "/", "index.mdx">>

\* the resource whose references are held has a record of its declaration order
Declared == i >= 1 /\ pc # "build" /\ "raw" \in DOMAIN parsedFiles[i]

\* the position of a key in the declaration order of the resource
DeclaredAt(key) == CHOOSE n \in DOMAIN parsedFiles[i].raw : parsedFiles[i].raw[n] = key

\* the position of a field in the order of the extraction rules
FieldRank(key) ==
  CASE key = "services" -> 1 [] key = "domains" -> 2
    [] key = "sends" -> 3 [] key = "receives" -> 4 [] key = "entities" -> 5
    [] key = "steps" -> 6 [] key = "properties" -> 7
    [] key = "owners" -> 8 [] key = "members" -> 9

\* the references of a list field, in the order they are held
RefsOf(key) == SelectSeq(references, LAMBDA r : r.field = <<key>>)

\* the errors follow the references: the error of the reference checked last is
\* the last one
ErrorsFollow == Reported => LastError.field = LastRef.field

\* C16 as stated: the references of a resource are held in the order in which the
\* frontmatter declares their fields
C16_DeclarationOrder ==
  Declared =>
    \A p, q \in 1..Len(references) :
      p < q => DeclaredAt(references[p].field[1]) <= DeclaredAt(references[q].field[1])

\* C16 amended: the references are held in the order of the extraction rules
\* (services, domains, sends, receives, entities, steps, properties, owners,
\* members), whatever the declaration order, in list order within one field, a
\* step's message before its service; the errors follow
C16_RuleOrder ==
  /\ Declared =>
       /\ \A p, q \in 1..Len(references) :
            p < q => FieldRank(references[p].field[1]) <= FieldRank(references[q].field[1])
       /\ \A key \in {"services", "domains", "sends", "receives", "entities"} :
            RefsOf(key) # <<>> =>
              [n \in 1..Len(RefsOf(key)) |-> RefsOf(key)[n].ref] = FM(parsedFiles[i], key).xs
       /\ \A key \in {"owners", "members"} :
            RefsOf(key) # <<>> =>
              [n \in 1..Len(RefsOf(key)) |-> Get(RefsOf(key)[n].ref, "id")] = FM(parsedFiles[i], key).xs
       /\ \A p, q \in 1..Len(references) :
            (p < q /\ references[p].field[1] = "steps" /\ references[q].field[1] = "steps")
            => \/ DigitVal(references[p].field[3]) < DigitVal(references[q].field[3])
               \/ /\ references[p].field[3] = references[q].field[3]
                  /\ references[p].field[6] = "message"
                  /\ references[q].field[6] = "service"
  /\ ErrorsFollow
  /\ \A p, q \in 1..Len(errors) :
       (p < q /\ errors[p].file = errors[q].file)
       => FieldRank(errors[p].field[1]) <= FieldRank(errors[q].field[1])

\* a domain that declares its owners before its services: the service reference
\* is held first and reported first
C16_Witness ==
  /\ Declared
  /\ parsedFiles[i].raw = <<"owners", "entities", "services">>
  /\ references[1].field = <<"services">>
  /\ references[Len(references)].field = <<"owners">>
  /\ pc = "done"
  /\ errors[1].field = <<"services">>
  /\ errors[Len(errors)].field = <<"owners">>

\* references holds the references of parsedFiles[i]
Extracted == i >= 1 /\ pc \in {"extract", "check", "done"}

\* the rows of the extraction table for list fields: resource type, field,
\* possible types
ListRows ==
  {<<"domain", "services", <<"service">> >>, <<"domain", "domains", <<"domain">> >>,
   <<"domain", "entities", <<"entity">> >>,
   <<"service", "sends", <<"event", "command", "query">> >>,
   <<"service", "receives", <<"event", "command", "query">> >>,
   <<"service", "entities", <<"entity">> >>}

\* the items of a field of a resource, when it is a list
ListOf(f, key) == IF IsArray(FM(f, key)) THEN FM(f, key).xs ELSE <<>>

\* the references the table gives for a resource
TableRefs(f) ==
  LET type == f.file.resourceType
      steps == IF type = "flow" THEN ListOf(f, "steps") ELSE <<>>
      properties == IF type = "entity" THEN ListOf(f, "properties") ELSE <<>>
      members == IF type = "team" THEN ListOf(f, "members") ELSE <<>>
  IN UNION {{[ref |-> ListOf(f, row[2])[n], possibleTypes |-> row[3], field |-> <<row[2]>>] :
               n \in 1..Len(ListOf(f, row[2]))} : row \in {r \in ListRows : r[1] = type}}
     \cup {[ref |-> Get(steps[n], "message"), possibleTypes |-> <<"event", "command", "query">>,
            field |-> <<"steps", "[">> \o Digits(n - 1) \o <<"]", ".", "message">>] :
             n \in {m \in 1..Len(steps) : Truthy(Get(steps[m], "message"))}}
     \cup {[ref |-> Get(steps[n], "service"), possibleTypes |-> <<"service">>,
            field |-> <<"steps", "[">> \o Digits(n - 1) \o <<"]", ".", "service">>] :
             n \in {m \in 1..Len(steps) : Truthy(Get(steps[m], "service"))}}
     \cup {[ref |-> Obj([id |-> Get(properties[n], "references")]), possibleTypes |-> <<"entity">>,
            field |-> <<"properties", "[">> \o Digits(n - 1) \o <<"]", ".", "references">>] :
             n \in {m \in 1..Len(properties) : Truthy(Get(properties[m], "references"))}}
     \cup {[ref |-> Obj([id |-> members[n]]), possibleTypes |-> <<"user">>, field |-> <<"members">>] :
             n \in 1..Len(members)}
     \cup {[ref |-> Obj([id |-> ListOf(f, "owners")[n]]), possibleTypes |-> <<"user", "team">>,
            field |-> <<"owners">>] : n \in 1..Len(ListOf(f, "owners"))}

\* C17: the references extracted from a resource are exactly those of the
\* extraction table for its type, with the table's possible types and labels
\* (steps and properties labelled with the zero-based position of the item), one
\* for every item of a list field, none for a field of another resource type
C17_ExtractionTable ==
  Extracted =>
    /\ {references[k] : k \in 1..Len(references)} = TableRefs(parsedFiles[i])
    /\ \A key \in {"services", "domains", "entities", "sends", "receives", "owners", "members"} :
         Len(RefsOf(key)) =
           IF \E r \in TableRefs(parsedFiles[i]) : r.field = <<key>>
           THEN Len(ListOf(parsedFiles[i], key)) ELSE 0

\* a flow whose first step carries no reference: the message of the second step is
\* labelled steps[1].message
C17_Witness ==
  /\ Extracted
  /\ parsedFiles[i].file.resourceType = "flow"
  /\ Len(references) = 1
  /\ references[1].field = <<"steps", "[", "1", "]", ".", "message">>
  /\ references[1].possibleTypes = <<"event", "command", "query">>

\* buildResourceIndex has raised: a file is left that is filed under no key
BuildThrown ==
  pc = "thrown" /\ \E f \in Files : ~Indexed(f.file.resourceType, canonicalId(f))

\* the version a resource declares: its frontmatter version when that is a string,
\* 'latest' otherwise
DeclaredVersion(f) == IF IsString(FM(f, "version")) THEN FM(f, "version").s ELSE LATEST

\* the resources of the catalog with a resource type and canonical id
FilesAt(type, id) == {f \in Files : f.file.resourceType = type /\ canonicalId(f) = id}

\* the index holds, for every type and canonical id with a resource, versionOf of
\* these resources, and nothing else
IndexIs(versionOf(_)) ==
  /\ DOMAIN index = {f.file.resourceType : f \in Files}
  /\ \A type \in DOMAIN index :
       /\ DOMAIN index[type] = {canonicalId(f) : f \in {g \in Files : g.file.resourceType = type}}
       /\ \A id \in DOMAIN index[type] :
            index[type][id] = {versionOf(f) : f \in FilesAt(type, id)}

\* C18: buildResourceIndex returns, and the index holds for every resource type and
\* canonical id exactly the declared versions of the resources with that type and
\* id ('latest' for a resource without a string version), whatever the order and
\* the repetitions of the input
C18_IndexIsVersionSets ==
  /\ ~BuildThrown
  /\ IndexBuilt => IndexIs(DeclaredVersion)

\* C19: two calls on the same input return identical error lists (or both raise)
C19_SameInputSameErrors ==
  (/\ pc \in {"done", "thrown"}
   /\ otherCall.pc \in {"done", "thrown"}
   /\ otherCall.parsedFiles = parsedFiles)
  => pc = otherCall.pc /\ errors = otherCall.errors

\* both calls over the domain that refers to a and b have returned the two errors
C19_Witness ==
  /\ pc = "done"
  /\ otherCall.pc = "done"
  /\ otherCall.parsedFiles = parsedFiles
  /\ Len(errors) = 2
  /\ otherCall.errors = errors

\* C20: a call returns what it returns when run alone, whatever another call over
\* other resources has built or is building, and at no point does its index hold
\* an entry for which its own input has no resource
C20_CallsIsolated ==
  /\ pc \in {"done", "thrown"}
       => /\ pc = CallResult(CallStart(parsedFiles)).pc
          /\ pc = "done" => errors = CallResult(CallStart(parsedFiles)).errors
  /\ pc # "idle" =>
       \A type \in DOMAIN index : \A id \in DOMAIN index[type] : FilesAt(type, id) # {}

\* the other call has indexed the service a; the call over the domain alone has
\* reported both a and b
C20_Witness ==
  /\ pc = "done"
  /\ parsedFiles = <<Referrer("domain", "services", List(<<RefA, RefB>>))>>
  /\ otherCall.pc # "build"
  /\ "service" \in DOMAIN otherCall.index
  /\ idA \in DOMAIN otherCall.index["service"]
  /\ Len(errors) = 2

\* the call has ended: it has returned or raised
Ended == pc \in {"done", "thrown"}

\* the references extractReferences yields for a resource
RefsIn(f) ==
  IF extractReferencesThrows(f) THEN {}
  ELSE {extractReferences(f)[n] : n \in 1..Len(extractReferences(f))}

\* f refers to g: a reference of f names the key g is filed under, with the type
\* of g among its possible types
Lists(f, g) ==
  \E info \in RefsIn(f) :
    /\ ~GetThrows(info.ref)
    /\ RefId(info) = canonicalId(g)
    /\ g.file.resourceType \in TypesOf(info)

\* g is reached from f along at most n references
RECURSIVE Reaches(_, _, _)
Reaches(f, g, n) ==
  /\ n >= 1
  /\ \/ Lists(f, g)
     \/ \E h \in Files : Lists(f, h) /\ Reaches(h, g, n - 1)

\* the references starting at f lead back to f
OnCycle(f) == Reaches(f, f, Len(parsedFiles))

\* the catalog holds the resource the reference names, in the version it names
\* when it names one
TargetExists(info) ==
  /\ ~GetThrows(info.ref)
  /\ \E g \in Files :
       /\ g.file.resourceType \in TypesOf(info)
       /\ canonicalId(g) = RefId(info)
       /\ ~Truthy(RefVersion(info)) \/ RefVersion(info) = Str(versionToken(g))

\* C21: every call of validateReferences ends, and when it returns, no reference
\* of a resource that lies on a cycle of references is reported if its target
\* exists: a cycle is neither followed nor rejected
C21_CyclesTerminate ==
  /\ <>Ended
  /\ [](pc = "done" =>
          \A f \in Files : OnCycle(f) =>
            \A info \in RefsIn(f) : TargetExists(info) => errorOf(f, info) \notin ErrorSet)

\* the call over two resources that list each other, one of them itself too, has
\* returned without error
C21_Witness ==
  /\ pc = "done"
  /\ errors = <<>>
  /\ \E f \in Files, g \in Files : f # g /\ Lists(f, g) /\ Lists(g, f) /\ Lists(f, f)

\* the resources buildResourceIndex has processed so far
Processed == IF pc = "build" THEN {parsedFiles[k] : k \in 1..i} ELSE Files

\* index[type]?.[id] yields a value: an own key, or a property every object
\* inherits once the type is indexed
EntryAt(type, id) ==
  type \in DOMAIN index /\ (id \in DOMAIN index[type] \/ id \in ObjectPrototypeKeys)

\* the ids a lookup is made with
LookupIds == {canonicalId(f) : f \in Files} \cup ObjectPrototypeKeys \cup {idA, idB}

\* C25: after every iteration of buildResourceIndex and in the index it returns,
\* every version set is non-empty and the index yields an entry for a type and id
\* exactly when a processed resource has that type and canonical id
C25_EntryIffResource ==
  pc \in {"build", "extract", "check", "done"} =>
    \A type \in ResourceTypes, id \in LookupIds :
      /\ EntryAt(type, id) <=>
           \E f \in Processed : f.file.resourceType = type /\ canonicalId(f) = id
      /\ Indexed(type, id) => index[type][id] # {}

\* one error for each of refs[k..] that no possible type resolves, in the order of
\* refs
RECURSIVE UnresolvedErrors(_, _, _)
UnresolvedErrors(f, refs, k) ==
  IF k > Len(refs) THEN <<>>
  ELSE (IF SomeType(refs[k].ref, refs[k].possibleTypes, 1, index) = "true" THEN <<>>
        ELSE <<errorOf(f, refs[k])>>)
       \o UnresolvedErrors(f, refs, k + 1)

\* the errors of parsedFiles[k..], resource after resource
RECURSIVE ErrorsFrom(_)
ErrorsFrom(k) ==
  IF k > Len(parsedFiles) THEN <<>>
  ELSE UnresolvedErrors(parsedFiles[k], extractReferences(parsedFiles[k]), 1) \o ErrorsFrom(k + 1)

\* C26: the list validateReferences returns holds one error for every extracted
\* reference that does not resolve, repeated references included, and none for a
\* resolved one, in the order of the resources in the input and, within a
\* resource, in extraction order
C26_OneErrorPerUnresolved == pc = "done" => errors = ErrorsFrom(1)

\* a resource listing one missing reference twice, in a catalog of two
\* resources, has two equal errors
C26_Witness ==
  /\ pc = "done"
  /\ Len(parsedFiles) = 2
  /\ Len(errors) = 2
  /\ errors[1] = errors[2]

\* the id of the reference is indexed, but under no type the reference may have
IndexedElsewhere(info) ==
  /\ ~GetThrows(info.ref)
  /\ \E t \in ResourceTypes \ TypesOf(info) : Indexed(t, RefId(info))
  /\ \A t \in TypesOf(info) : ~Indexed(t, RefId(info))

\* C27: a reference whose id is indexed only under types outside its possible
\* types does not resolve and is reported
C27_OwnTypesOnly ==
  (j >= 1 /\ IndexedElsewhere(LastRef))
  => /\ ~found
     /\ errors # <<>>
     /\ LastError = errorOf(parsedFiles[i], LastRef)

\* a 'services' entry of a domain names a, which is an event: it is reported
C27_Witness ==
  /\ j >= 1
  /\ LastRef.field = <<"services">>
  /\ IndexedElsewhere(LastRef)
  /\ Indexed("event", RefId(LastRef))
  /\ ~found
  /\ LastError = errorOf(parsedFiles[i], LastRef)

\* resources of one type with different storage-derived ids filed under one id
Aliases(type, id) ==
  \E f \in FilesAt(type, id), g \in FilesAt(type, id) :
    f.file.resourceId # g.file.resourceId

\* the version the resource declares answers the request: 'latest' is answered by
\* any version, any other request by the same string or by a semantic version in
\* its range
Supplies(g, requested) ==
  \/ requested = Str(LATEST)
  \/ requested = Str(versionToken(g))
  \/ /\ versionToken(g) # LATEST
     /\ semverValid(Str(versionToken(g)))
     /\ semverSatisfies(Str(versionToken(g)), requested)

\* C30: resources of one type with different storage-derived ids and the same
\* canonical id share one version set, the union of their versions, and a
\* versioned reference to that id resolves when one of them supplies a version
\* answering the request
C30_SharedVersionSet ==
  /\ IndexBuilt =>
       \A type \in ResourceTypes, id \in {canonicalId(f) : f \in Files} :
         Aliases(type, id) =>
           VersionSet(type, id) = {versionToken(f) : f \in FilesAt(type, id)}
  /\ (/\ j >= 1
      /\ ~GetThrows(LastRef.ref)
      /\ IsString(RefVersion(LastRef)) /\ Truthy(RefVersion(LastRef))
      /\ \E type \in TypesOf(LastRef) :
           /\ Aliases(type, RefId(LastRef))
           /\ \E g \in FilesAt(type, RefId(LastRef)) : Supplies(g, RefVersion(LastRef)))
     => found

\* the domain stored as a under the id b declares 1.0.0, the domain stored as b
\* declares 2.0.0: the set of b holds both and the reference to b in 2.0.0 resolves
C30_Witness ==
  /\ j >= 1
  /\ RefVersion(LastRef) = Str(v200)
  /\ Aliases("domain", idB)
  /\ RefId(LastRef) = idB
  /\ VersionSet("domain", idB) = {v100, v200}
  /\ \E f \in FilesAt("domain", idB) : f.file.resourceId = idA /\ versionToken(f) = v100
  /\ found

\* the catalog without its k-th resource
Without(k) == SubSeq(parsedFiles, 1, k - 1) \o SubSeq(parsedFiles, k + 1, Len(parsedFiles))

\* the loop of buildResourceIndex over files[k..], from the index idx: the index
\* it returns, or ok = FALSE when an iteration raises
RECURSIVE IndexFrom(_, _, _)
IndexFrom(files, k, idx) ==
  IF k > Len(files) THEN [ok |-> TRUE, index |-> idx]
  ELSE IF IndexAddThrows(idx, files[k]) THEN [ok |-> FALSE]
  ELSE IndexFrom(files, k + 1, IndexAdd(idx, files[k]))

\* the reference resolves against the index idx
ResolvesIn(info, idx) == SomeType(info.ref, info.possibleTypes, 1, idx) = "true"

\* C29: whichever resource of the catalog is taken as the added one, every
\* reference of the other resources that resolves without it resolves with it, and
\* when it declares no references the call returns no more errors with it than
\* without it
C29_AddingKeepsResolved ==
  pc = "done" =>
    \A k \in 1..Len(parsedFiles) :
      LET smaller == IndexFrom(Without(k), 1, <<>>)
          alone == IF Without(k) = <<>> THEN [pc |-> "done", errors |-> <<>>]
                   ELSE CallResult(CallStart(Without(k)))
      IN /\ smaller.ok =>
              \A n \in 1..Len(Without(k)) : \A info \in RefsIn(Without(k)[n]) :
                ResolvesIn(info, smaller.index) => ResolvesIn(info, index)
         /\ (RefsIn(parsedFiles[k]) = {} /\ alone.pc = "done") =>
              Len(errors) <= Len(alone.errors)

\* the service sends a in ^1.0.0; the event a in 1.0.0 resolves it, and with the
\* event a in 2.0.0 added to the catalog it still resolves
C29_Witness ==
  /\ pc = "done"
  /\ errors = <<>>
  /\ Len(parsedFiles) = 3
  /\ versionToken(parsedFiles[3]) = v200
  /\ RefsIn(parsedFiles[1]) # {}
  /\ \A info \in RefsIn(parsedFiles[1]) :
       /\ RefVersion(info) = Str(<<"^">> \o v100)
       /\ ResolvesIn(info, IndexFrom(Without(3), 1, <<>>).index)
       /\ ~ResolvesIn(info, IndexFrom(Without(2), 1, <<>>).index)

\* the overrides of the configuration getEffectiveRules was called with
GivenOverrides == IF "overrides" \in DOMAIN config[1] THEN config[1].overrides ELSE <<>>

\* the positions of the overrides one of whose patterns matches filePath
Matching == {k \in 1..Len(GivenOverrides) : matchesFile(GivenOverrides[k], filePath)}

\* the matching overrides that set the rule
Setting(ruleName) == {k \in Matching : ruleName \in DOMAIN GivenOverrides[k].rules}

\* the value the rule has after the overlay: that of the last matching override
\* that sets it, else the base value
Overlaid(ruleName) ==
  IF Setting(ruleName) = {} THEN config[1].rules[ruleName]
  ELSE GivenOverrides[CHOOSE k \in Setting(ruleName) : \A m \in Setting(ruleName) : m <= k]
         .rules[ruleName]

\* C22: getEffectiveRules returns, in parsed form, the base rules and the rules of
\* the matching overrides, each rule with the value of the last matching override
\* that sets it and with its base value when none does; an override no pattern
\* of which matches changes nothing
C22_OverridesInOrder ==
  parsedRules # None =>
    /\ DOMAIN parsedRules[1] =
         DOMAIN config[1].rules \cup UNION {DOMAIN GivenOverrides[k].rules : k \in Matching}
    /\ \A ruleName \in DOMAIN parsedRules[1] :
         parsedRules[1][ruleName] = parseRuleConfig(Overlaid(ruleName))

\* two matching overrides set schema/required-fields to different values and a
\* third rule keeps its base value: the later override's value is returned
C22_Witness ==
  /\ parsedRules # None
  /\ Matching = {1, 2}
  /\ Setting("schema/required-fields") = {1, 2}
  /\ GivenOverrides[1].rules["schema/required-fields"] = Severity("off")
  /\ parsedRules[1]["schema/required-fields"].severity = Severity("error")
  /\ parsedRules[1]["schema/required-fields"].options = Obj([strict |-> Num(0)])
  /\ Setting("refs/owner-exists") = {}
  /\ "refs/owner-exists" \in DOMAIN parsedRules[1]
  /\ parsedRules[1]["refs/owner-exists"] = parseRuleConfig(Severity("off"))

\* the severity the rules give the rule an error is mapped to, None when the rule
\* is missing
MappedSeverity(error) ==
  IF mapErrorToRuleName(error) \in DOMAIN rules[1]
  THEN Some(rules[1][mapErrorToRuleName(error)].severity)
  ELSE None

\* the positions of the errors whose mapped rule is there and not 'off'
Kept == {k \in 1..Len(errors) : MappedSeverity(errors[k]) \notin {None, Some(Severity("off"))}}

\* C23: applyRuleSeverity returns the errors whose mapped rule is configured and
\* not 'off', in their order, each with its fields as they were and the severity
\* 'warning' for a rule at 'warn' and 'error' for a rule at 'error'; the rules no
\* error is mapped to change nothing
C23_SeverityApplied ==
  processedErrors # None =>
    /\ Len(processedErrors[1]) = Cardinality(Kept)
    /\ \A k \in Kept :
         LET result == processedErrors[1][Cardinality({m \in Kept : m <= k})]
         IN /\ DOMAIN result = DOMAIN errors[k] \cup {"severity"}
            /\ \A field \in DOMAIN errors[k] \ {"severity"} : result[field] = errors[k][field]
            /\ MappedSeverity(errors[k]) = Some(Severity("warn")) => result.severity = "warning"
            /\ MappedSeverity(errors[k]) = Some(Severity("error")) => result.severity = "error"
    /\ processedErrors[1] =
         applyRuleSeverity(errors,
                           [n \in {mapErrorToRuleName(errors[k]) : k \in 1..Len(errors)}
                                    \cap DOMAIN rules[1] |-> rules[1][n]])

\* of two errors the first is mapped to a rule that is missing and dropped, the
\* second to a rule at 'warn' and returned as a warning; a rule at 'off' that no
\* error is mapped to is among the rules
C23_Witness ==
  /\ processedErrors # None
  /\ Len(errors) = 2
  /\ MappedSeverity(errors[1]) = None
  /\ MappedSeverity(errors[2]) = Some(Severity("warn"))
  /\ Len(processedErrors[1]) = 1
  /\ processedErrors[1][1].severity = "warning"
  /\ processedErrors[1][1].message = errors[2].message
  /\ \E n \in DOMAIN rules[1] :
       /\ rules[1][n].severity = Severity("off")
       /\ \A k \in 1..2 : mapErrorToRuleName(errors[k]) # n

\* the error reports a missing service, domain, entity or message named without a
\* version: a reference error of a field other than owners and members
ResourceError(error) ==
  /\ error.type = "reference"
  /\ error.field \notin {<<"owners">>, <<"members">>}
  /\ error.rule = "refs/resource-exists"

OwnerRules == {"refs/owner-exists", "refs/valid-version-range"}

\* the rules with refs/owner-exists and refs/valid-version-range both at 'off'
OwnerRulesOff(ruleSet) ==
  [n \in DOMAIN ruleSet \cup OwnerRules |->
     IF n \in OwnerRules THEN parseRuleConfig(Severity("off")) ELSE ruleSet[n]]

\* C28: an error for a missing service, domain, entity or message named without a
\* version is mapped to a rule other than refs/owner-exists and
\* refs/valid-version-range whatever the id, so it is returned with those two rules
\* off whenever it is returned at all, and only errors of the user and team
\* references are mapped to refs/owner-exists
C28_NotConfigurable ==
  processedErrors # None =>
    \A k \in 1..Len(errors) :
      /\ ResourceError(errors[k]) =>
           /\ mapErrorToRuleName(errors[k]) \notin OwnerRules
           /\ applyRuleSeverity(<<errors[k]>>, rules[1]) # <<>> =>
                applyRuleSeverity(<<errors[k]>>, OwnerRulesOff(rules[1])) # <<>>
      /\ mapErrorToRuleName(errors[k]) = "refs/owner-exists" =>
           errors[k].field \in {<<"owners">>, <<"members">>}

Threw(names) == \E k \in 1..Len(ran) : ran[k].threw /\ ran[k].step \in names

Ran(name) == \E k \in 1..Len(ran) : ran[k].step = name

====
